---- MODULE Spec2Model ----
(***************************************************************************)
(* Model of the bookmark manager's URL canonicalisation, deduplication and *)
(* store operations (src/lib/utils/index.ts, src/lib/storage/index.ts and  *)
(* the handlers that call them).                                           *)
(*                                                                         *)
(* Strings are TLA+ strings handled character by character (Len, SubSeq,   *)
(* \o), so parsing and re-serialising a URL is computed, not assumed.      *)
(* The platform's `new URL(...)` is modelled after the WHATWG URL standard *)
(* for http/https inputs over the alphabet the inputs below are drawn from *)
(* (letters, digits, ". / : ? # & = _" and the space): no credentials, no  *)
(* IPv4/IPv6 hosts, no dot segments, no characters that need percent       *)
(* encoding inside a component.                                            *)
(***************************************************************************)
EXTENDS Integers, Sequences, FiniteSets, TLC

VARIABLES
    parts,      \* SpecUrl: the components the raw input string is built from
    op,         \* SpecUrl: the operation applied last ("" before any)
    arg,        \* SpecUrl: the string(s) the operation was applied to
    res,        \* SpecUrl: what the operation returned
    input,      \* SpecDedupe: the list of records handed to dedupeBookmarks
    output,     \* SpecDedupe: the list dedupeBookmarks returned
    phase,      \* SpecDedupe: "input" before the call, "done" after it
    now,        \* Date.now()
    store,      \* Spec: the persisted bookmarks (the JSON array of the store)
    uiBookmarks, \* Spec: the page's `bookmarks` state
    status,     \* Spec: the status line of the handler that ran last
    lastOp,     \* Spec: the handler that ran last
    before,     \* Spec: the persisted bookmarks when that handler started
    result,     \* Spec: what storage.dedupeBookmarksByUrl returned last
    page,       \* SpecMeta: the HTML document and the url it was fetched from
    extracted,  \* SpecMeta: what the extraction function called last returned
    collections, \* SpecPage: the ids of the persisted collections, in order
    uiActiveCollectionId, \* SpecPage: the page's `activeCollectionId` state
    lastAction, \* SpecPage: the page's `lastAction` state (the action to undo)
    deletion,   \* SpecPage: the deferred removal deleteBookmarks scheduled
    undo,       \* SpecPage: the undo of a deletion that is under way
    target,     \* SpecPage: the id the handler that ran last was applied to
    legacy,     \* SpecRequests: the legacy keys of localStorage
    outcome     \* SpecRequests: how the storage call made last ended

urlVars == <<parts, op, arg, res>>

dedupeVars == <<input, output, phase>>

storeVars == <<store, uiBookmarks, status, lastOp, before, result>>

metaVars == <<page, extracted>>

pageVars ==
    <<collections, uiActiveCollectionId, lastAction, deletion, undo, target, legacy, outcome>>

(***************************************************************************)
(* Strings                                                                 *)
(***************************************************************************)

\* An absent (null / undefined) string-valued field.
Null == "<null>"

Char(s, i) == SubSeq(s, i, i)

StartsWith(s, p) == Len(s) >= Len(p) /\ SubSeq(s, 1, Len(p)) = p

EndsWith(s, p) == Len(s) >= Len(p) /\ SubSeq(s, Len(s) - Len(p) + 1, Len(s)) = p

\* s.slice(from) with a 1-based first index.
From(s, i) == SubSeq(s, i, Len(s))

RECURSIVE FindFirst(_, _, _)
\* The first index >= i of s holding a character of stops; Len(s) + 1 when none.
FindFirst(s, i, stops) ==
    IF i > Len(s) THEN Len(s) + 1
    ELSE IF Char(s, i) \in stops THEN i
    ELSE FindFirst(s, i + 1, stops)

RECURSIVE SkipWhile(_, _, _)
\* The first index >= i of s holding a character not in skip; Len(s) + 1 when none.
SkipWhile(s, i, skip) ==
    IF i > Len(s) THEN Len(s) + 1
    ELSE IF Char(s, i) \in skip THEN SkipWhile(s, i + 1, skip)
    ELSE i

RECURSIVE LastNot(_, _, _)
\* The last index <= i of s holding a character not in skip; 0 when none.
LastNot(s, i, skip) ==
    IF i < 1 THEN 0
    ELSE IF Char(s, i) \in skip THEN LastNot(s, i - 1, skip)
    ELSE i

WhiteSpace == {" "}

\* String.prototype.trim
Trim(s) == SubSeq(s, SkipWhile(s, 1, WhiteSpace), LastNot(s, Len(s), WhiteSpace))

LowerLetters ==
    {"a", "b", "c", "d", "e", "f", "g", "h", "i", "j", "k", "l", "m",
     "n", "o", "p", "q", "r", "s", "t", "u", "v", "w", "x", "y", "z"}

UpperLetters ==
    {"A", "B", "C", "D", "E", "F", "G", "H", "I", "J", "K", "L", "M",
     "N", "O", "P", "Q", "R", "S", "T", "U", "V", "W", "X", "Y", "Z"}

Digits == {"0", "1", "2", "3", "4", "5", "6", "7", "8", "9"}

LowerOf ==
    [c \in UpperLetters |->
        CASE c = "A" -> "a" [] c = "B" -> "b" [] c = "C" -> "c" [] c = "D" -> "d"
          [] c = "E" -> "e" [] c = "F" -> "f" [] c = "G" -> "g" [] c = "H" -> "h"
          [] c = "I" -> "i" [] c = "J" -> "j" [] c = "K" -> "k" [] c = "L" -> "l"
          [] c = "M" -> "m" [] c = "N" -> "n" [] c = "O" -> "o" [] c = "P" -> "p"
          [] c = "Q" -> "q" [] c = "R" -> "r" [] c = "S" -> "s" [] c = "T" -> "t"
          [] c = "U" -> "u" [] c = "V" -> "v" [] c = "W" -> "w" [] c = "X" -> "x"
          [] c = "Y" -> "y" [] c = "Z" -> "z"]

\* The lower-case form of one character.
LowerChar(c) == IF c \in UpperLetters THEN LowerOf[c] ELSE c

RECURSIVE ToLower(_)
\* String.prototype.toLowerCase, and the ASCII lower-casing of the URL parser:
\* character by character, the string being halved to keep the nesting low.
ToLower(s) ==
    IF Len(s) = 0 THEN ""
    ELSE IF Len(s) = 1 THEN LowerChar(s)
    ELSE ToLower(SubSeq(s, 1, Len(s) \div 2)) \o ToLower(SubSeq(s, Len(s) \div 2 + 1, Len(s)))

RECURSIVE SplitOn(_, _)
\* s.split(sep) for a one-character separator: the pieces, empty ones included.
SplitOn(s, sep) ==
    LET i == FindFirst(s, 1, {sep})
    IN IF i > Len(s) THEN <<s>>
       ELSE <<SubSeq(s, 1, i - 1)>> \o SplitOn(From(s, i + 1), sep)

RECURSIVE JoinWith(_, _)
JoinWith(pieces, sep) ==
    IF pieces = <<>> THEN ""
    ELSE IF Len(pieces) = 1 THEN pieces[1]
    ELSE pieces[1] \o sep \o JoinWith(Tail(pieces), sep)

(***************************************************************************)
(* The platform URL object: new URL(s), its href and its setters           *)
(***************************************************************************)

SpecialSchemes == {"http", "https"}

SchemeChars == LowerLetters \cup UpperLetters \cup Digits \cup {"+", "-", "."}

\* Code points the host parser rejects (the ones of the model's alphabet and
\* their neighbours).
ForbiddenHostChars == {" ", "#", "/", "<", ">", "?", "@", "[", "]", "^", "|", "%"}

Failure ==
    [ok |-> FALSE, scheme |-> "", host |-> "", port |-> "", path |-> "",
     query |-> Null, fragment |-> Null, searchParams |-> <<>>]

\* i when the character of s at index i is ":"; 0 otherwise.
ColonAt(s, i) == IF i <= Len(s) /\ Char(s, i) = ":" THEN i ELSE 0

\* The index of the ":" that ends the scheme of s; 0 when s has no scheme.
SchemeEnd(s) ==
    IF s = "" \/ Char(s, 1) \notin (LowerLetters \cup UpperLetters) THEN 0
    ELSE ColonAt(s, SkipWhile(s, 2, SchemeChars))

DefaultPort(scheme) == IF scheme = "http" THEN "80" ELSE "443"

\* application/x-www-form-urlencoded parsing of one "name=value" piece.
ParsePair(piece) ==
    <<SubSeq(piece, 1, FindFirst(piece, 1, {"="}) - 1),
      From(piece, FindFirst(piece, 1, {"="}) + 1)>>

\* The URLSearchParams list of a query: pieces between "&", empty ones skipped.
ParseQuery(query) ==
    IF query = Null THEN <<>>
    ELSE LET pieces == SelectSeq(SplitOn(query, "&"), LAMBDA p : p # "")
         IN [k \in 1..Len(pieces) |-> ParsePair(pieces[k])]

\* application/x-www-form-urlencoded serialisation of a URLSearchParams list.
SerializeParams(list) ==
    JoinWith([k \in 1..Len(list) |-> list[k][1] \o "=" \o list[k][2]], "&")

\* The query of what follows the path ("", "?query", "#fragment" or
\* "?query#fragment"): null when no "?" starts it.
QueryOf(tail) ==
    IF StartsWith(tail, "?")
    THEN SubSeq(tail, 2, FindFirst(tail, 2, {"#"}) - 1)
    ELSE Null

\* The fragment of what follows the path: null when it holds no "#".
FragmentOf(tail) ==
    IF FindFirst(tail, 1, {"#"}) <= Len(tail)
    THEN From(tail, FindFirst(tail, 1, {"#"}) + 1)
    ELSE Null

\* The URL record of a special scheme's parsed components; Failure for an
\* empty host, a forbidden host code point or a port that is not a number.
MakeUrl(scheme, hostRaw, portRaw, pathRaw, query, fragment) ==
    IF \/ hostRaw = ""
       \/ FindFirst(hostRaw, 1, ForbiddenHostChars) <= Len(hostRaw)
       \/ SkipWhile(portRaw, 1, Digits) <= Len(portRaw)
    THEN Failure
    ELSE [ok |-> TRUE,
          scheme |-> scheme,
          host |-> ToLower(hostRaw),
          port |-> IF portRaw = DefaultPort(scheme) THEN "" ELSE portRaw,
          path |-> IF pathRaw = "" THEN "/" ELSE pathRaw,
          query |-> query,
          fragment |-> fragment,
          searchParams |-> ParseQuery(query)]

\* Host and port state: the authority is split at its first ":".
ParseHostPort(scheme, authority, colon, pathRaw, tail) ==
    MakeUrl(scheme, SubSeq(authority, 1, colon - 1), From(authority, colon + 1),
            pathRaw, QueryOf(tail), FragmentOf(tail))

\* Path state: the path runs from the end of the authority to the first "?"
\* or "#".
ParsePath(scheme, rest, authority, aEnd, pEnd) ==
    ParseHostPort(scheme, authority, FindFirst(authority, 1, {":"}),
                  SubSeq(rest, aEnd, pEnd - 1), From(rest, pEnd))

\* Authority state: the authority runs from index a to the first "/", "?" or "#".
ParseAuthority(scheme, rest, a, aEnd) ==
    ParsePath(scheme, rest, SubSeq(rest, a, aEnd - 1), aEnd,
              FindFirst(rest, aEnd, {"?", "#"}))

\* Special authority (ignore) slashes state: any number of "/" after "scheme:".
ParseAfterSlashes(scheme, rest, a) ==
    ParseAuthority(scheme, rest, a, FindFirst(rest, a, {"/", "?", "#"}))

\* The URL parser for a special scheme, applied to what follows "scheme:".
ParseSpecial(scheme, rest) == ParseAfterSlashes(scheme, rest, SkipWhile(rest, 1, {"/"}))

\* Scheme state done: a non-special scheme is outside the inputs of this model
\* and is reported as a URL with an empty host and the rest as its path.
ParseWithScheme(scheme, rest) ==
    IF scheme \in SpecialSchemes
    THEN ParseSpecial(scheme, rest)
    ELSE [Failure EXCEPT !.ok = TRUE, !.scheme = scheme, !.path = rest]

\* Scheme start state: a string with no scheme fails, there being no base URL.
ParseScheme(s, e) ==
    IF e = 0 THEN Failure
    ELSE ParseWithScheme(ToLower(SubSeq(s, 1, e - 1)), From(s, e + 1))

\* Leading and trailing C0 control or space is removed first.
ParseTrimmed(s) == ParseScheme(s, SchemeEnd(s))

\* new URL(input) without a base: Failure stands for the TypeError it throws.
ParseURL(str) == ParseTrimmed(Trim(str))

\* url.href
Href(u) ==
    u.scheme \o (IF u.scheme \in SpecialSchemes THEN "://" ELSE ":") \o u.host
        \o (IF u.port = "" THEN "" ELSE ":" \o u.port)
        \o u.path
        \o (IF u.query = Null THEN "" ELSE "?" \o u.query)
        \o (IF u.fragment = Null THEN "" ELSE "#" \o u.fragment)

\* url.hostname = value: an empty or unparsable host leaves a special URL as
\* it is.
SetHostname(u, value) ==
    IF \/ u.scheme \notin SpecialSchemes
       \/ value = ""
       \/ FindFirst(value, 1, ForbiddenHostChars \cup {":"}) <= Len(value)
    THEN u
    ELSE [u EXCEPT !.host = ToLower(value)]

\* url.hash = "": the fragment becomes null.
ClearHash(u) == [u EXCEPT !.fragment = Null]

\* url.pathname = value, for a value that starts with "/".
SetPathname(u, value) ==
    IF u.scheme \notin SpecialSchemes THEN u
    ELSE [u EXCEPT !.path = IF value = "" THEN "/" ELSE value]

\* url.searchParams.delete(name): every pair of that name goes, and the URL's
\* query is rewritten from the list (null when the list is empty).
UpdateQuery(u, list) ==
    [u EXCEPT !.searchParams = list,
              !.query = IF list = <<>> THEN Null ELSE SerializeParams(list)]

SearchParamsDelete(u, name) ==
    UpdateQuery(u, SelectSeq(u.searchParams, LAMBDA p : p[1] # name))

\* Array.from(url.searchParams.keys())
SearchParamsKeys(u) == [k \in 1..Len(u.searchParams) |-> u.searchParams[k][1]]

(***************************************************************************)
(* src/lib/utils/index.ts                                                  *)
(***************************************************************************)

\* try { return new URL(...).href } catch { return url }
HrefOrElse(urlObj, url) == IF urlObj.ok THEN Href(urlObj) ELSE url

\* The body of normalizeUrl.
NormalizeUrlOf(url) ==
    HrefOrElse(ParseURL(IF StartsWith(url, "http") THEN url ELSE "https://" \o url), url)

\* A ref-stripping that drops the fragment too.
StripRefParsedDroppingHash(url, parsed) ==
    IF ~parsed.ok THEN url ELSE Href(ClearHash(SearchParamsDelete(parsed, "ref")))

\* parsed.searchParams.delete("ref"); return parsed.href  (catch: return url)
StripRefParsed(url, parsed) ==
    IF ~parsed.ok THEN url ELSE Href(SearchParamsDelete(parsed, "ref"))

StripRefTrimmed(url, trimmed) ==
    IF trimmed = "" THEN url ELSE StripRefParsed(url, ParseURL(NormalizeUrlOf(trimmed)))

\* The body of stripRefParam.
StripRefOf(url) == StripRefTrimmed(url, Trim(url))

IsLikelyTrimmed(trimmed) ==
    IF FindFirst(trimmed, 1, {" "}) <= Len(trimmed) THEN FALSE
    ELSE ParseURL(IF StartsWith(trimmed, "http") THEN trimmed
                  ELSE "https://" \o trimmed).ok

\* The body of isLikelyUrl.
IsLikelyUrlOf(value) == IF value = "" THEN FALSE ELSE IsLikelyTrimmed(Trim(value))

(***************************************************************************)
(* src/lib/storage/index.ts: normalizeCompareUrl                           *)
(***************************************************************************)

\* hostname.replace(/^www\./, "")
StripLeadingWww(hostname) ==
    IF StartsWith(hostname, "www.") THEN From(hostname, 5) ELSE hostname

\* parsed.hostname = parsed.hostname.replace(/^www\./, "")
StripWww(u) == SetHostname(u, StripLeadingWww(u.host))

\* A removal of the keys that start with "utm_" as written, in lower case.
DeleteUtmKeysLowerCaseOnly(u, keys) ==
    UpdateQuery(u, SelectSeq(u.searchParams, LAMBDA p : ~StartsWith(p[1], "utm_")))

RECURSIVE DeleteUtmKeys(_, _)
\* keys.forEach(key => { if (key.toLowerCase().startsWith("utm_")) delete(key) })
DeleteUtmKeys(u, keys) ==
    IF keys = <<>> THEN u
    ELSE DeleteUtmKeys(
            IF StartsWith(ToLower(Head(keys)), "utm_")
            THEN SearchParamsDelete(u, Head(keys))
            ELSE u,
            Tail(keys))

\* Array.from(parsed.searchParams.keys()).forEach(...)
DeleteUtm(u) == DeleteUtmKeys(u, SearchParamsKeys(u))

\* if (pathname !== "/" && pathname.endsWith("/")) pathname = pathname.slice(0, -1)
StripTrailingSlash(u) ==
    IF u.path # "/" /\ EndsWith(u.path, "/")
    THEN SetPathname(u, SubSeq(u.path, 1, Len(u.path) - 1))
    ELSE u

\* The statements of the try block, in order, on the parsed URL.
CompareUrlParsed(url, parsed) ==
    IF ~parsed.ok THEN url
    ELSE Href(StripTrailingSlash(DeleteUtm(
            SearchParamsDelete(ClearHash(StripWww(parsed)), "ref"))))

CompareUrlTrimmed(url, trimmed) ==
    IF trimmed = "" THEN url ELSE CompareUrlParsed(url, ParseURL(NormalizeUrlOf(trimmed)))

\* The body of normalizeCompareUrl.
CompareUrlOf(url) == CompareUrlTrimmed(url, Trim(url))

(***************************************************************************)
(* The strings records and user input are drawn from. stripRefParam and    *)
(* normalizeCompareUrl are tabulated once for them and for what the        *)
(* functions make of them; any other string is computed on the spot.       *)
(***************************************************************************)

\* The URLs of the records handed to dedupeBookmarks.
RecordUrls == {"a.co/p", "www.a.co/p/?ref=1", "a.co/p//"}

\* What the user types, pastes, imports or bulk-adds.
Values == {"a.co/p", "www.a.co/p", "a.co/p?ref=1", "http://b.co/", "not a url"}

\* The link targets of an imported markdown and the lines of a bulk add.
Links == {"www.a.co/p", "a.co/p?ref=1", "https://a.co/p?x"}

SeedUrls == RecordUrls \cup Values \cup Links

DerivedUrls(known) ==
    known \cup {NormalizeUrlOf(u) : u \in known} \cup {StripRefOf(u) : u \in known}
          \cup {CompareUrlOf(u) : u \in known}

KnownUrls == DerivedUrls(DerivedUrls(SeedUrls))

StripRefTable == [u \in KnownUrls |-> StripRefOf(u)]

CompareUrlTable == [u \in KnownUrls |-> CompareUrlOf(u)]

NormalizeUrlTable == [u \in KnownUrls |-> NormalizeUrlOf(u)]

IsLikelyUrlTable == [u \in KnownUrls |-> IsLikelyUrlOf(u)]

normalizeUrl(url) ==
    IF url \in KnownUrls THEN NormalizeUrlTable[url] ELSE NormalizeUrlOf(url)

isLikelyUrl(value) ==
    IF value \in KnownUrls THEN IsLikelyUrlTable[value] ELSE IsLikelyUrlOf(value)

stripRefParam(url) ==
    IF url \in KnownUrls THEN StripRefTable[url] ELSE StripRefOf(url)

normalizeCompareUrl(url) ==
    IF url \in KnownUrls THEN CompareUrlTable[url] ELSE CompareUrlOf(url)

(***************************************************************************)
(* src/lib/storage/index.ts: dedupeBookmarks                               *)
(***************************************************************************)

\* An absent (undefined) timestamp.
Undefined == -1

\* value ?? fallback
OrElse(value, fallback) == IF value = Undefined THEN fallback ELSE value

\* const normalized = normalizeCompareUrl(stripRefParam(bookmark.url))
CompareKey(url) == normalizeCompareUrl(stripRefParam(url))

\* A Map is the sequence of its entries in insertion order.
RECURSIVE MapIndex(_, _, _)
\* The index of key's entry among the first n entries of map; 0 when absent.
MapIndex(map, key, n) ==
    IF n = 0 THEN 0
    ELSE IF map[n].key = key THEN n
    ELSE MapIndex(map, key, n - 1)

\* A map.set that moves a key already present to the end.
MapSetMovingToEnd(map, at, key, value) ==
    Append(SelectSeq(map, LAMBDA e : e.key # key), [key |-> key, value |-> value])

\* map.set(key, value) where at is the key's index, 0 when the key is new: a
\* key already present keeps its place.
MapSetAt(map, at, key, value) ==
    IF at = 0 THEN Append(map, [key |-> key, value |-> value])
    ELSE [map EXCEPT ![at].value = value]

\* Array.from(map.values())
MapValues(map) == [k \in 1..Len(map) |-> map[k].value]

\* A preference by timestamp alone.
PreferOverByTimeOnly(existing, bookmark) ==
    OrElse(bookmark.updatedAt, 0) > OrElse(existing.updatedAt, 0)

\* preferIncoming, for an existing entry
PreferOver(existing, bookmark) ==
    \/ (existing.collectionId = "default") /\ ~(bookmark.collectionId = "default")
    \/ /\ (existing.collectionId = "default") = (bookmark.collectionId = "default")
       /\ OrElse(bookmark.updatedAt, 0) > OrElse(existing.updatedAt, 0)

\* preferIncoming: at is the index of the key's entry, 0 when there is none
PreferIncoming(map, at, bookmark) ==
    at = 0 \/ PreferOver(map[at].value, bookmark)

\* A stored record whose updatedAt is always refreshed.
StoredRecordTouched(bookmark, normalized, t) ==
    [bookmark EXCEPT !.url = normalized,
                     !.updatedAt = t,
                     !.createdAt = OrElse(@, t)]

\* { ...bookmark, url: normalized, updatedAt: ... ?? Date.now(), createdAt: ... }
StoredRecord(bookmark, normalized, t) ==
    [bookmark EXCEPT !.url = normalized,
                     !.updatedAt = OrElse(@, t),
                     !.createdAt = OrElse(@, t)]

\* One iteration of the loop, the key and its place in the map known.
DedupeAt(byUrl, bookmark, normalized, at, t) ==
    IF PreferIncoming(byUrl, at, bookmark)
    THEN MapSetAt(byUrl, at, normalized, StoredRecord(bookmark, normalized, t))
    ELSE byUrl

DedupeKeyed(byUrl, bookmark, normalized, t) ==
    DedupeAt(byUrl, bookmark, normalized, MapIndex(byUrl, normalized, Len(byUrl)), t)

\* One iteration of the loop.
DedupeStep(byUrl, bookmark, t) ==
    DedupeKeyed(byUrl, bookmark, CompareKey(bookmark.url), t)

RECURSIVE DedupeLoop(_, _, _, _)
\* for (const bookmark of bookmarks) ..., from element i on
DedupeLoop(bookmarks, i, byUrl, t) ==
    IF i > Len(bookmarks) THEN byUrl
    ELSE DedupeLoop(bookmarks, i + 1, DedupeStep(byUrl, bookmarks[i], t), t)

\* dedupeBookmarks(bookmarks), Date.now() returning t throughout the call
dedupeBookmarks(bookmarks, t) == MapValues(DedupeLoop(bookmarks, 1, <<>>, t))

(***************************************************************************)
(* The platform's String.prototype.match for the regular expressions of    *)
(* the metadata extractor. A pattern is a sequence of tokens:              *)
(*   lit    a literal, matched without regard to case (the i flag)         *)
(*   one    one character of a class, as ["']                              *)
(*   star   any number of characters outside chars, as [^>] starred        *)
(*   group  the same as a star, captured as group 1                        *)
(* A star is greedy and gives characters back one at a time.               *)
(***************************************************************************)

Lit(text) == [kind |-> "lit", text |-> text, chars |-> {}]

One(chars) == [kind |-> "one", text |-> "", chars |-> chars]

Star(chars) == [kind |-> "star", text |-> "", chars |-> chars]

Group(chars) == [kind |-> "group", text |-> "", chars |-> chars]

\* ["']
Quote == One({"\"", "'"})

\* null
NoMatch == [ok |-> FALSE, cap |-> ""]

\* The first alternative when it matched, the second otherwise.
OrElseMatch(first, second) == IF first.ok THEN first ELSE second

\* The lower-cased subject lower holds the literal text at index i.
LitAt(lower, i, text) ==
    i + Len(text) - 1 <= Len(lower) /\ SubSeq(lower, i, i + Len(text) - 1) = text

\* The greatest element of a non-empty set of numbers.
Greatest(S) == CHOOSE x \in S : \A y \in S : y <= x

RECURSIVE MatchAt(_, _, _, _, _, _)
RECURSIVE StarEnds(_, _, _, _, _, _)
RECURSIVE MatchStar(_, _, _, _, _, _, _)
\* The match of the tokens of pat from number k on at index i of s, cap being
\* what the group captured so far.
MatchAt(pat, k, s, lower, i, cap) ==
    IF k > Len(pat) THEN [ok |-> TRUE, cap |-> cap]
    ELSE IF pat[k].kind = "lit"
    THEN IF LitAt(lower, i, pat[k].text)
         THEN MatchAt(pat, k + 1, s, lower, i + Len(pat[k].text), cap)
         ELSE NoMatch
    ELSE IF pat[k].kind = "one"
    THEN IF i <= Len(s) /\ Char(s, i) \in pat[k].chars
         THEN MatchAt(pat, k + 1, s, lower, i + 1, cap)
         ELSE NoMatch
    ELSE MatchStar(pat, k, s, lower, i,
                   StarEnds(pat, k, s, lower, i, FindFirst(s, i, pat[k].chars)), cap)

\* Token k being a star or the group that starts at i and can run up to
\* e - 1: the indexes j from which the rest of the pattern matches when the
\* token takes the characters from i to j - 1.
StarEnds(pat, k, s, lower, i, e) ==
    {j \in i..e : MatchAt(pat, k + 1, s, lower, j, "").ok}

\* A star is greedy: it takes the most characters the rest allows.
MatchStar(pat, k, s, lower, i, ends, cap) ==
    IF ends = {} THEN NoMatch
    ELSE MatchAt(pat, k + 1, s, lower, Greatest(ends),
                 IF pat[k].kind = "group" THEN SubSeq(s, i, Greatest(ends) - 1) ELSE cap)

RECURSIVE SearchFrom(_, _, _, _)
\* The leftmost match at or after index i. Every pattern starts with "<", so
\* only the indexes of a "<" are tried.
SearchFrom(pat, s, lower, i) ==
    IF i > Len(s) THEN NoMatch
    ELSE OrElseMatch(MatchAt(pat, 1, s, lower, i, ""),
                     SearchFrom(pat, s, lower, FindFirst(s, i + 1, {"<"})))

\* html.match(pat): the match and its group 1.
Match(html, pat) == SearchFrom(pat, html, ToLower(html), FindFirst(html, 1, {"<"}))

\* match && match[1]
Matched(m) == m.ok /\ m.cap # ""

\* /<meta[^>]*ATTR=["']VALUE["'][^>]*content=["']([^"']*)["']/i
MetaPattern(attr, value) ==
    <<Lit("<meta"), Star({">"}), Lit(attr \o "="), Quote, Lit(value), Quote,
      Star({">"}), Lit("content="), Quote, Group({"\"", "'"}), Quote>>

\* /<title[^>]*>([^<]*)<\/title>/i
TitlePattern ==
    <<Lit("<title"), Star({">"}), Lit(">"), Group({"<"}), Lit("</title>")>>

\* /<link[^>]*rel=["']REL["'][^>]*href=["']([^"']*)["']/i
LinkPattern(rel) ==
    <<Lit("<link"), Star({">"}), Lit("rel="), Quote, Lit(rel), Quote,
      Star({">"}), Lit("href="), Quote, Group({"\"", "'"}), Quote>>

\* /<link[^>]*rel=["']icon["'][^>]*type=["']image\/png["'][^>]*href=["']([^"']*)["']/i
PngIconPattern ==
    <<Lit("<link"), Star({">"}), Lit("rel="), Quote, Lit("icon"), Quote,
      Star({">"}), Lit("type="), Quote, Lit("image/png"), Quote,
      Star({">"}), Lit("href="), Quote, Group({"\"", "'"}), Quote>>

(***************************************************************************)
(* src/unnamed/part_001: the metadata extractor                            *)
(***************************************************************************)

\* Absent (undefined).
Absent == "<undefined>"

\* entities[match] || match
EntityOf(match) ==
    CASE match = "&amp;" -> "&"
      [] match = "&lt;" -> "<"
      [] match = "&gt;" -> ">"
      [] match = "&quot;" -> "\""
      [] match = "&#39;" -> "'"
      [] match = "&apos;" -> "'"
      [] OTHER -> match

RECURSIVE ReplaceEntities(_, _, _)
\* text.replace(/&[^;]+;/g, ...) from index i on, amp being the index of the
\* next "&" at or after i: a match runs from an "&" over at least one
\* character that is no ";" to the next ";".
ReplaceEntities(text, i, amp) ==
    IF amp > Len(text) \/ FindFirst(text, amp + 1, {";"}) > Len(text)
    THEN From(text, i)
    ELSE IF FindFirst(text, amp + 1, {";"}) = amp + 1
    THEN ReplaceEntities(text, i, FindFirst(text, amp + 1, {"&"}))
    ELSE SubSeq(text, i, amp - 1)
            \o EntityOf(SubSeq(text, amp, FindFirst(text, amp + 1, {";"})))
            \o ReplaceEntities(text, FindFirst(text, amp + 1, {";"}) + 1,
                    FindFirst(text, FindFirst(text, amp + 1, {";"}) + 1, {"&"}))

decodeHtmlEntities(text) == ReplaceEntities(text, 1, FindFirst(text, 1, {"&"}))

RECURSIVE IndexOf(_, _, _)
\* The first index >= i at which s holds sub; 0 when it does not.
IndexOf(s, sub, i) ==
    IF i + Len(sub) - 1 > Len(s) THEN 0
    ELSE IF SubSeq(s, i, i + Len(sub) - 1) = sub THEN i
    ELSE IndexOf(s, sub, i + 1)

\* s.replace(sub, ""), at is IndexOf(s, sub, 1): the first occurrence goes.
RemoveAt(s, sub, at) ==
    IF at = 0 THEN s ELSE SubSeq(s, 1, at - 1) \o From(s, at + Len(sub))

\* urlObj.hostname.replace('www.', '')
HostnameWithoutWww(hostname) == RemoveAt(hostname, "www.", IndexOf(hostname, "www.", 1))

\* What a call leaves when an exception leaves it: no operator of the
\* extractor or of the URL functions yields it, every new URL(...) standing
\* in a try block.
Raised == "<exception>"

\* The hostname fallback without its try block.
TitleFromUrlUncaught(urlObj) ==
    IF urlObj.ok THEN HostnameWithoutWww(urlObj.host) ELSE Raised

\* try { return new URL(url).hostname.replace('www.', '') } catch { return 'Untitled' }
TitleFromUrl(urlObj) == IF urlObj.ok THEN HostnameWithoutWww(urlObj.host) ELSE "Untitled"

\* The first of the matches that has a non-empty group, decoded; fallback when
\* none has.
FirstDecoded(matches, fallback) ==
    IF \E k \in 1..Len(matches) : Matched(matches[k])
    THEN decodeHtmlEntities(
            matches[CHOOSE k \in 1..Len(matches) :
                        /\ Matched(matches[k])
                        /\ \A j \in 1..(k - 1) : ~Matched(matches[j])].cap)
    ELSE fallback

extractTitle(html, url) ==
    FirstDecoded(<<Match(html, MetaPattern("property", "og:title")),
                   Match(html, MetaPattern("name", "twitter:title")),
                   Match(html, TitlePattern)>>,
                 TitleFromUrl(ParseURL(url)))

extractDescription(html) ==
    FirstDecoded(<<Match(html, MetaPattern("property", "og:description")),
                   Match(html, MetaPattern("name", "twitter:description")),
                   Match(html, MetaPattern("name", "description"))>>,
                 "")

\* urlObj.origin of an http or https URL
Origin(urlObj) ==
    urlObj.scheme \o "://" \o urlObj.host
        \o (IF urlObj.port = "" THEN "" ELSE ":" \o urlObj.port)

resolveUrl(href, base) ==
    IF StartsWith(href, "http") THEN href
    ELSE IF StartsWith(href, "//") THEN "https:" \o href
    ELSE IF StartsWith(href, "/") THEN base \o href
    ELSE base \o "/" \o href

\* The first of the matches that has a non-empty group, resolved against
\* origin; fallback when none has.
FirstResolved(matches, origin, fallback) ==
    IF \E k \in 1..Len(matches) : Matched(matches[k])
    THEN resolveUrl(
            matches[CHOOSE k \in 1..Len(matches) :
                        /\ Matched(matches[k])
                        /\ \A j \in 1..(k - 1) : ~Matched(matches[j])].cap,
            origin)
    ELSE fallback

\* An extractIcon that tries the icon link of any type before the others.
IconOfAnyTypeFirst(html, urlObj) ==
    IF ~urlObj.ok THEN Absent
    ELSE FirstResolved(<<Match(html, LinkPattern("icon")),
                         Match(html, LinkPattern("apple-touch-icon")),
                         Match(html, PngIconPattern),
                         Match(html, LinkPattern("shortcut icon"))>>,
                       Origin(urlObj), Origin(urlObj) \o "/favicon.ico")

\* The try block of extractIcon.
IconOf(html, urlObj) ==
    IF ~urlObj.ok THEN Absent
    ELSE FirstResolved(<<Match(html, LinkPattern("apple-touch-icon")),
                         Match(html, PngIconPattern),
                         Match(html, LinkPattern("shortcut icon")),
                         Match(html, LinkPattern("icon"))>>,
                       Origin(urlObj), Origin(urlObj) \o "/favicon.ico")

extractIcon(html, url) == IconOf(html, ParseURL(url))

\* An extractImage that tries twitter:image before og:image.
ImageOfTwitterFirst(html, urlObj) ==
    IF ~urlObj.ok THEN Absent
    ELSE FirstResolved(<<Match(html, MetaPattern("name", "twitter:image")),
                         Match(html, MetaPattern("property", "og:image"))>>,
                       Origin(urlObj), Absent)

\* The try block of extractImage.
ImageOf(html, urlObj) ==
    IF ~urlObj.ok THEN Absent
    ELSE FirstResolved(<<Match(html, MetaPattern("property", "og:image")),
                         Match(html, MetaPattern("name", "twitter:image"))>>,
                       Origin(urlObj), Absent)

extractImage(html, url) == ImageOf(html, ParseURL(url))

(***************************************************************************)
(* SpecUrl: the pure URL functions applied to bounded inputs               *)
(***************************************************************************)

\* The longest query, in parameters, of a generated input.
MaxParams == 2

Schemes == {"", "http://", "https://"}
Wwws == {"", "www."}
Paths == {"", "/", "/p", "/p/", "/p//"}
Params == {"ref=1", "Ref=4", "utm_s=2", "UTM_m=5", "x=3"}
Frags == {"", "#f"}

\* Queries of up to MaxParams different parameters, in every order.
ParamSeqs ==
    UNION {{q \in [1..n -> Params] : \A i, j \in 1..n : q[i] = q[j] => i = j} :
                n \in 0..MaxParams}

\* Queries with a parameter that occurs twice, and with one that has no "=".
RepeatedParams ==
    {<<"ref=1", "x=3", "ref=2">>, <<"utm_s=2", "x=3", "utm_s=6", "y">>, <<"y", "ref=1">>}

\* Inputs on the host a.co, and a few on a host whose name begins with the
\* letters "http".
UrlParts ==
    [scheme : Schemes, www : Wwws, host : {"a.co"}, path : Paths,
     params : ParamSeqs, frag : Frags]
    \cup
    [scheme : Schemes, www : Wwws, host : {"httpd.io"}, path : {"", "/p/"},
     params : {<<>>, <<"ref=1", "x=3">>}, frag : {""}]
    \cup
    [scheme : {"https://"}, www : {""}, host : {"a.co"}, path : {"/p"},
     params : RepeatedParams, frag : {"", "#f"}]

\* The raw input string a choice of components stands for.
Render(p) ==
    p.scheme \o p.www \o p.host \o p.path
        \o (IF p.params = <<>> THEN "" ELSE "?" \o JoinWith(p.params, "&"))
        \o p.frag

\* The sequence s with x inserted so that it becomes element number i.
InsertAt(s, i, x) == SubSeq(s, 1, i - 1) \o <<x>> \o SubSeq(s, i, Len(s))

\* The variables of the other specifications, at rest.
MetaIdle == page = <<>> /\ extracted = <<>>

DedupeIdle == input = <<>> /\ output = <<>> /\ phase = "idle"

StoreIdle ==
    /\ store = <<>>
    /\ uiBookmarks = <<>>
    /\ status = ""
    /\ lastOp = "idle"
    /\ before = <<>>
    /\ result = [removed |-> 0, normalizedRef |-> 0]

\* lastAction === null
NoAction ==
    [type |-> "none", bookmarks |-> <<>>, bookmarkId |-> 0, collectionId |-> "",
     tags |-> <<>>]

\* No deferred removal is scheduled or running (deleteTimeoutRef.current is
\* null).
NoDeletion == [pc |-> "idle", ids |-> {}, list |-> <<>>]

\* No undo of a deletion is under way.
NoUndo == [pc |-> "idle", list |-> <<>>, bookmarks |-> <<>>]

\* localStorage without the legacy keys.
NoLegacy == [k \in {} |-> <<>>]

\* No storage call has ended yet.
NoOutcome == [result |-> "", ids |-> {}, saves |-> <<>>, legacy |-> NoLegacy]

PageIdle ==
    /\ collections = <<>>
    /\ uiActiveCollectionId = ""
    /\ lastAction = NoAction
    /\ deletion = NoDeletion
    /\ undo = NoUndo
    /\ target = ""
    /\ legacy = NoLegacy
    /\ outcome = NoOutcome

InitUrl ==
    /\ parts \in UrlParts
    /\ op = ""
    /\ arg = <<>>
    /\ res = <<>>
    /\ now = 0
    /\ DedupeIdle
    /\ StoreIdle
    /\ MetaIdle
    /\ PageIdle

\* canonicalize(raw)
Canonicalize ==
    /\ op = ""
    /\ op' = "canonicalize"
    /\ arg' = <<Render(parts)>>
    /\ res' = <<normalizeCompareUrl(Render(parts))>>
    /\ UNCHANGED <<parts, now, dedupeVars, storeVars, metaVars, pageVars>>

\* canonicalize applied to its own result
Recanonicalize ==
    /\ op = "canonicalize"
    /\ op' = "recanonicalize"
    /\ arg' = res
    /\ res' = <<normalizeCompareUrl(res[1])>>
    /\ UNCHANGED <<parts, now, dedupeVars, storeVars, metaVars, pageVars>>

\* canonicalize applied to the input and to a second string, built from other
Compare(kind, other) ==
    /\ op = ""
    /\ op' = kind
    /\ arg' = [k \in 1..2 |-> Render(IF k = 1 THEN parts ELSE other)]
    /\ res' = [k \in 1..2 |-> normalizeCompareUrl(arg'[k])]
    /\ UNCHANGED <<parts, now, dedupeVars, storeVars, metaVars, pageVars>>

\* the same URL with one more leading "www." on the host
CompareWww == Compare("www", [parts EXCEPT !.www = "www." \o @])

\* the same URL with one more trailing slash on a non-root path
CompareSlash ==
    /\ parts.path \notin {"", "/"}
    /\ Compare("slash", [parts EXCEPT !.path = @ \o "/"])

\* the same URL with another fragment
CompareFragment ==
    \E f \in Frags \ {parts.frag} : Compare("fragment", [parts EXCEPT !.frag = f])

\* the same URL with one more `ref` parameter
CompareRef ==
    \E i \in 1..(Len(parts.params) + 1) :
        Compare("ref", [parts EXCEPT !.params = InsertAt(@, i, "ref=1")])

\* the same URL with one more utm_* parameter
CompareUtm ==
    \E i \in 1..(Len(parts.params) + 1), u \in {"utm_s=2", "UTM_m=5"} :
        Compare("utm", [parts EXCEPT !.params = InsertAt(@, i, u)])

\* the same URL under the other of the two schemes http and https
CompareScheme ==
    /\ parts.scheme \in {"http://", "https://"}
    /\ Compare("scheme",
               [parts EXCEPT !.scheme = IF @ = "http://" THEN "https://" ELSE "http://"])

\* The two strings of the documented example.
ExampleHttp == "http://www.example.com/page/?ref=abc&utm_source=x#frag"

ExampleHttps == "https://example.com/page"

\* canonicalize applied to the two strings of the documented example
CompareExample ==
    /\ op = ""
    /\ parts.params = <<>>
    /\ op' = "example"
    /\ arg' = <<ExampleHttp, ExampleHttps>>
    /\ res' = [k \in 1..2 |-> normalizeCompareUrl(arg'[k])]
    /\ UNCHANGED <<parts, now, dedupeVars, storeVars, metaVars, pageVars>>

\* stripRefParam(raw)
StripRef ==
    /\ op = ""
    /\ op' = "stripRef"
    /\ arg' = <<Render(parts)>>
    /\ res' = <<stripRefParam(Render(parts))>>
    /\ UNCHANGED <<parts, now, dedupeVars, storeVars, metaVars, pageVars>>

\* The string of the documented example of stripRefParam.
ExampleRef == "https://example.com/a?ref=1&x=2"

\* stripRefParam applied to the string of its documented example
StripRefExample ==
    /\ op = ""
    /\ parts.params = <<>>
    /\ op' = "stripRefExample"
    /\ arg' = <<ExampleRef>>
    /\ res' = <<stripRefParam(ExampleRef)>>
    /\ UNCHANGED <<parts, now, dedupeVars, storeVars, metaVars, pageVars>>

\* canonicalize and stripRefParam applied to a bare domain and to the same
\* string after "https://": res holds the two canonical forms, then the two
\* ref-stripped forms.
CompareBare ==
    /\ op = ""
    /\ parts.scheme = ""
    /\ op' = "bare"
    /\ arg' = <<Render(parts), "https://" \o Render(parts)>>
    /\ res' = <<normalizeCompareUrl(Render(parts)),
                normalizeCompareUrl("https://" \o Render(parts)),
                stripRefParam(Render(parts)),
                stripRefParam("https://" \o Render(parts))>>
    /\ UNCHANGED <<parts, now, dedupeVars, storeVars, metaVars, pageVars>>

\* Strings that are no URL, bare and between spaces, and strings of spaces.
Malformed == {"not a url", " not a url ", "a b", "a b ", "", " ", "  "}

\* canonicalize applied to a string that is no URL
CanonicalizeMalformed ==
    \E m \in Malformed :
        /\ op = ""
        /\ parts.params = <<>>
        /\ op' = "malformed"
        /\ arg' = <<m>>
        /\ res' = <<normalizeCompareUrl(m)>>
        /\ UNCHANGED <<parts, now, dedupeVars, storeVars, metaVars, pageVars>>

NextUrl ==
    \/ Canonicalize
    \/ StripRef
    \/ StripRefExample
    \/ CompareBare
    \/ CanonicalizeMalformed
    \/ Recanonicalize
    \/ CompareWww
    \/ CompareSlash
    \/ CompareFragment
    \/ CompareRef
    \/ CompareUtm
    \/ CompareScheme
    \/ CompareExample

vars ==
    <<parts, op, arg, res, input, output, phase, now, store, uiBookmarks, status,
      lastOp, before, result, page, extracted, pageVars>>

SpecUrl == InitUrl /\ [][NextUrl]_vars

(***************************************************************************)
(* SpecDedupe: dedupeBookmarks applied to bounded lists of records         *)
(***************************************************************************)

\* The longest list handed to dedupeBookmarks.
MaxRecords == 3

\* createdAt and updatedAt of an input record.
Stamps == {<<Undefined, Undefined>>, <<1, 1>>, <<Undefined, 2>>, <<1, 2>>}

\* What a record of an input list may be, but for its id.
RecordShapes ==
    {[url |-> u, collectionId |-> c, stamps |-> st] :
        u \in RecordUrls, c \in {"default", "work"}, st \in Stamps}

\* The record of a shape at position i of a list: the id is the position, as
\* generateId gives every record its own.
RecordOf(shape, i) ==
    [id |-> i, url |-> shape.url, title |-> "t", tags |-> <<>>,
     collectionId |-> shape.collectionId,
     createdAt |-> shape.stamps[1], updatedAt |-> shape.stamps[2]]

UrlIdle == parts = <<>> /\ op = "idle" /\ arg = <<>> /\ res = <<>>

InitDedupe ==
    /\ input = <<>>
    /\ output = <<>>
    /\ phase = "input"
    /\ now = 3
    /\ UrlIdle
    /\ StoreIdle
    /\ MetaIdle
    /\ PageIdle

\* The caller's list grows by one record.
AddRecord ==
    /\ phase = "input"
    /\ Len(input) < MaxRecords
    /\ \E shape \in RecordShapes : input' = Append(input, RecordOf(shape, Len(input) + 1))
    /\ UNCHANGED <<output, phase, now, urlVars, storeVars, metaVars, pageVars>>

\* dedupeBookmarks(input)
Dedupe ==
    /\ phase = "input"
    /\ output' = dedupeBookmarks(input, now)
    /\ phase' = "done"
    /\ UNCHANGED <<input, now, urlVars, storeVars, metaVars, pageVars>>

NextDedupe == AddRecord \/ Dedupe

SpecDedupe == InitDedupe /\ [][NextDedupe]_vars

(***************************************************************************)
(* Spec: the store and the handlers that add to it and deduplicate it.     *)
(* Every handler runs to completion before the next starts.                *)
(***************************************************************************)

\* The last value Date.now() takes: every stored bookmark takes one tick.
MaxClock == 2

\* The most link targets of one import, and lines of one bulk add.
MaxLinks == 2

\* src/lib/utils/index.ts: isDuplicateUrl, as the index of the first stored
\* bookmark whose ref-stripped url is that of url; 0 for null.
RECURSIVE FirstDuplicate(_, _, _)
FirstDuplicate(normalized, list, i) ==
    IF i > Len(list) THEN 0
    ELSE IF stripRefParam(list[i].url) = normalized THEN i
    ELSE FirstDuplicate(normalized, list, i + 1)

isDuplicateUrl(url, list) == FirstDuplicate(stripRefParam(url), list, 1)

\* The Bookmark the handlers build: generateId() is Date.now() and a random
\* suffix, a value no other bookmark has; the tick stands for it.
NewBookmark(url, title, collectionId, t) ==
    [id |-> t, url |-> url, title |-> title, tags |-> <<>>,
     collectionId |-> collectionId, createdAt |-> t, updatedAt |-> t]

\* storage.addBookmark: read the store, unshift, write it back.
StoreAdd(stored, bookmark) == <<bookmark>> \o stored

\* The collections a bookmark can be added to.
CollectionIds == {"default", "work"}

InitStore ==
    /\ store = <<>>
    /\ uiBookmarks = <<>>
    /\ status = ""
    /\ lastOp = ""
    /\ before = <<>>
    /\ result = [removed |-> 0, normalizedRef |-> 0]
    /\ now = 1
    /\ UrlIdle
    /\ DedupeIdle
    /\ MetaIdle
    /\ PageIdle

\* addBookmarkFromValue, the link being new: it is saved with the metadata
\* the request returned or, the request having failed, without.
AddBookmarkSaved(value, trimmed, metadataOk, activeCollectionId) ==
    /\ now <= MaxClock
    /\ trimmed # ""
    /\ isLikelyUrl(trimmed)
    /\ isDuplicateUrl(trimmed, uiBookmarks) = 0
    /\ store' = StoreAdd(store,
                    NewBookmark(stripRefParam(trimmed),
                                IF metadataOk THEN "t" ELSE stripRefParam(trimmed),
                                activeCollectionId, now))
    /\ uiBookmarks' = store'
    /\ status' = IF metadataOk THEN "Saved." ELSE "Saved without metadata."
    /\ lastOp' = "add"
    /\ before' = store
    /\ now' = now + 1
    /\ UNCHANGED <<result, urlVars, dedupeVars, metaVars, pageVars>>

AddBookmark ==
    \E value \in Values, metadataOk \in BOOLEAN, c \in CollectionIds :
        AddBookmarkSaved(value, Trim(value), metadataOk, c)

\* addBookmarkFromValue, the link being found among the page's bookmarks.
AddBookmarkDuplicate ==
    \E value \in Values :
        /\ Trim(value) # ""
        /\ isLikelyUrl(Trim(value))
        /\ isDuplicateUrl(Trim(value), uiBookmarks) # 0
        /\ status' = "This link already exists in your list."
        /\ lastOp' = "add"
        /\ before' = store
        /\ UNCHANGED <<store, uiBookmarks, result, now, urlVars, dedupeVars, metaVars, pageVars>>

\* addBookmarkFromValue, the value not looking like a url: it becomes the
\* search query and nothing is stored.
AddBookmarkSearch ==
    \E value \in Values :
        /\ Trim(value) # ""
        /\ ~isLikelyUrl(Trim(value))
        /\ lastOp' = "search"
        /\ before' = store
        /\ UNCHANGED <<store, uiBookmarks, status, result, now, urlVars, dedupeVars, metaVars, pageVars>>

RECURSIVE UniqueUrls(_, _, _)
\* src/lib/utils/index.ts: extractUrlsFromMarkdown, from the link targets its
\* patterns match, in order: each is normalised and pushed unless seen.
UniqueUrls(targets, i, urls) ==
    IF i > Len(targets) THEN urls
    ELSE UniqueUrls(targets, i + 1,
            IF \E k \in 1..Len(urls) : urls[k] = normalizeUrl(targets[i]) THEN urls
            ELSE Append(urls, normalizeUrl(targets[i])))

extractUrlsFromMarkdown(targets) == UniqueUrls(targets, 1, <<>>)

\* SettingsModal: parseBulkLinks, from the lines of the text.
parseBulkLinks(lines) ==
    SelectSeq([k \in 1..Len(lines) |-> Trim(lines[k])],
              LAMBDA line : Len(line) > 0 /\ StartsWith(line, "http"))

\* One iteration of the import and bulk-add loops for a url that is no
\* duplicate and whose metadata arrived: the bookmark is stored and pushed to
\* the handler's own list.
LinkAdded(state, url, collectionId) ==
    [stored |-> StoreAdd(state.stored,
                    NewBookmark(normalizeUrl(url), "t", collectionId, state.t)),
     existing |-> Append(state.existing,
                    NewBookmark(normalizeUrl(url), "t", collectionId, state.t)),
     t |-> state.t + 1]

RECURSIVE AddLinks(_, _, _, _, _)
\* The loop of handleImport and of handleAddToExistingCollection from url i
\* on: a duplicate of the handler's list is skipped, and so is a url whose
\* metadata request fails.
AddLinks(urls, metadataOk, i, collectionId, state) ==
    IF i > Len(urls) THEN state
    ELSE AddLinks(urls, metadataOk, i + 1, collectionId,
            IF isDuplicateUrl(urls[i], state.existing) # 0 \/ ~metadataOk[i] THEN state
            ELSE LinkAdded(state, urls[i], collectionId))

\* Lists of 1..MaxLinks different links, as the text of an import or a bulk
\* add holds them.
LinkLists ==
    UNION {{l \in [1..n -> Links] : \A i, j \in 1..n : l[i] = l[j] => i = j} :
                n \in 1..MaxLinks}

\* The store, the page and the clock after a run of the loop.
LinksDone(handler, message, done) ==
    /\ done.t <= MaxClock + 1
    /\ store' = done.stored
    /\ uiBookmarks' = done.stored
    /\ now' = done.t
    /\ status' = message
    /\ lastOp' = handler
    /\ before' = store
    /\ UNCHANGED <<result, urlVars, dedupeVars, metaVars, pageVars>>

\* handleImport: the urls of the markdown are added to the active collection.
Import ==
    \E targets \in LinkLists, c \in CollectionIds :
      \E metadataOk \in [1..Len(extractUrlsFromMarkdown(targets)) -> BOOLEAN] :
        /\ Len(extractUrlsFromMarkdown(targets)) > 0
        /\ LinksDone("import", "Import complete",
                AddLinks(extractUrlsFromMarkdown(targets), metadataOk, 1, c,
                         [stored |-> store, existing |-> store, t |-> now]))

\* handleAddToExistingCollection: the lines that start with "http" are added
\* to the selected collection.
BulkAdd ==
    \E lines \in LinkLists, c \in CollectionIds :
      \E metadataOk \in [1..Len(parseBulkLinks(lines)) -> BOOLEAN] :
        /\ Len(parseBulkLinks(lines)) > 0
        /\ LinksDone("bulk", "Added links",
                AddLinks(parseBulkLinks(lines), metadataOk, 1, c,
                         [stored |-> store, existing |-> store, t |-> now]))

\* bookmarks.map(...): the records with their url ref-stripped.
RefStripped(list) == [k \in 1..Len(list) |-> [list[k] EXCEPT !.url = stripRefParam(@)]]

\* normalizedRef: how many urls the ref-stripping changed.
NormalizedRefCount(list) ==
    Cardinality({k \in 1..Len(list) : stripRefParam(list[k].url) # list[k].url})

\* A miscounted removed: the number of records left.
RemovedCountOfRest(list, deduped) == Len(deduped)

\* const removed = Math.max(0, bookmarks.length - deduped.length)
RemovedCount(list, deduped) ==
    IF Len(list) - Len(deduped) > 0 THEN Len(list) - Len(deduped) ELSE 0

\* storage.dedupeBookmarksByUrl, the deduplicated list known: it is saved when
\* a record was removed or a ref parameter stripped.
DedupeSaved(list, deduped) ==
    /\ result' = [removed |-> RemovedCount(list, deduped),
                  normalizedRef |-> NormalizedRefCount(list)]
    /\ store' = IF RemovedCount(list, deduped) > 0 \/ NormalizedRefCount(list) > 0
                THEN deduped ELSE store

\* handleDedupeLinks: storage.dedupeBookmarksByUrl(), then the page reloads
\* its bookmarks.
DedupeBookmarksByUrl ==
    /\ DedupeSaved(store, dedupeBookmarks(RefStripped(store), now))
    /\ uiBookmarks' = store'
    /\ status' = IF result'.removed > 0 \/ result'.normalizedRef > 0
                 THEN "Removed or stripped" ELSE "No duplicates found."
    /\ lastOp' = "dedupe"
    /\ before' = store
    /\ UNCHANGED <<now, urlVars, dedupeVars, metaVars, pageVars>>

Next ==
    \/ AddBookmark
    \/ AddBookmarkDuplicate
    \/ AddBookmarkSearch
    \/ Import
    \/ BulkAdd
    \/ DedupeBookmarksByUrl

Spec == InitStore /\ [][Next]_vars

(***************************************************************************)
(* SpecPage: the page's handlers for tags, titles, collections, deletion   *)
(* and undo, on a store that answers every request. The handlers are       *)
(* async: the deferred removal and the undo of a deletion are modelled     *)
(* request by request, and the other handlers start when neither is under  *)
(* way. The tag definitions (storage.saveTags) are left out: no handler    *)
(* modelled here reads them.                                               *)
(***************************************************************************)

\* The last tick at which a handler starts.
MaxTime == 5

TagNames == {"x"}

TagLists == {<<>>, <<"x">>}

Titles == {"t", "u"}

\* The id generateId() gives the collection the page creates.
NewCollectionId == "new"

\* The stores the page starts from: two bookmarks, added at ticks 1 and 2.
InitialStores ==
    {<<NewBookmark("http://b.co/", "t", c2, 2), NewBookmark("https://a.co/p", "t", c1, 1)>> :
        c1 \in CollectionIds, c2 \in CollectionIds}

\* { ...bookmarks[index], ...updates, updatedAt: Date.now() }, updates holding
\* one field
Updated(bookmark, field, value, t) ==
    [[bookmark EXCEPT ![field] = value] EXCEPT !.updatedAt = t]

RECURSIVE FindIndex(_, _, _)
\* bookmarks.findIndex((b) => b.id === id) from index i on, 0 standing for -1
FindIndex(list, id, i) ==
    IF i > Len(list) THEN 0
    ELSE IF list[i].id = id THEN i
    ELSE FindIndex(list, id, i + 1)

UpdateAt(stored, at, field, value, t) ==
    IF at = 0 THEN stored ELSE [stored EXCEPT ![at] = Updated(@, field, value, t)]

\* storage.updateBookmark(id, { [field]: value }): the store afterwards
updateBookmark(stored, id, field, value, t) ==
    UpdateAt(stored, FindIndex(stored, id, 1), field, value, t)

\* storage.getCollections: an empty list is replaced by the default collection
getCollections(stored) == IF stored = <<>> THEN <<"default">> ELSE stored

\* A removal of a collection that leaves its bookmarks in the store.
BookmarksKept(stored, id) == stored

\* (await storage.getBookmarks()).filter((b) => b.collectionId !== id)
BookmarksOutside(stored, id) == SelectSeq(stored, LAMBDA b : b.collectionId # id)

\* (await storage.getCollections()).filter((c) => c.id !== id)
CollectionsWithout(stored, id) == SelectSeq(getCollections(stored), LAMBDA c : c # id)

\* The ids of the bookmarks of a list.
IdsOf(list) == {list[k].id : k \in 1..Len(list)}

\* deleteTimeoutRef.current = setTimeout(() => removeBookmarks(), 150)
Deferred(ids) == [pc |-> "timer", ids |-> ids, list |-> <<>>]

\* clearTimeout(deleteTimeoutRef.current): a timer that has not fired is
\* cancelled; a removal that has started goes on.
ClearTimeout(d) == IF d.pc = "timer" THEN NoDeletion ELSE d

InitPage ==
    /\ store \in InitialStores
    /\ uiBookmarks = store
    /\ collections = <<"default", "work">>
    /\ uiActiveCollectionId \in CollectionIds
    /\ lastAction = NoAction
    /\ deletion = NoDeletion
    /\ undo = NoUndo
    /\ target = ""
    /\ legacy = NoLegacy
    /\ outcome = NoOutcome
    /\ status = ""
    /\ lastOp = ""
    /\ before = <<>>
    /\ result = [removed |-> 0, normalizedRef |-> 0]
    /\ now = 3
    /\ UrlIdle
    /\ DedupeIdle
    /\ MetaIdle

\* Neither a deferred removal nor an undo of a deletion is under way.
Quiet == deletion.pc = "idle" /\ undo.pc = "idle"

\* A handler starts: time has passed since the last one started. The rest is
\* what it leaves for the properties to read.
Started(handler, id) ==
    /\ now <= MaxTime
    /\ now' = now + 1
    /\ lastOp' = handler
    /\ target' = id
    /\ before' = store

\* handleSaveTags(bookmarkId, nextTags)
HandleSaveTags ==
    \E k \in 1..Len(uiBookmarks), nextTags \in TagLists :
        /\ Quiet
        /\ lastAction' =
                IF uiBookmarks[k].tags # nextTags
                THEN [NoAction EXCEPT !.type = "update_tags",
                                      !.bookmarkId = uiBookmarks[k].id,
                                      !.tags = uiBookmarks[k].tags]
                ELSE lastAction
        /\ store' = updateBookmark(store, uiBookmarks[k].id, "tags", nextTags, now)
        /\ uiBookmarks' = store'
        /\ Started("save_tags", "")
        /\ UNCHANGED <<status, result, collections, uiActiveCollectionId, deletion,
                       undo, legacy, outcome, urlVars, dedupeVars, metaVars>>

\* handleRenameTitle(bookmarkId, title)
HandleRenameTitle ==
    \E k \in 1..Len(uiBookmarks), title \in Titles :
        /\ Quiet
        /\ store' = updateBookmark(store, uiBookmarks[k].id, "title", title, now)
        /\ uiBookmarks' = store'
        /\ Started("rename", "")
        /\ UNCHANGED <<status, result, collections, uiActiveCollectionId, lastAction,
                       deletion, undo, legacy, outcome, urlVars, dedupeVars, metaVars>>

\* handleDropBookmarkOnCollection(collectionId, bookmarkId)
HandleDropBookmarkOnCollection ==
    \E k \in 1..Len(uiBookmarks), c \in 1..Len(collections) :
        /\ Quiet
        /\ uiBookmarks[k].collectionId # collections[c]
        /\ lastAction' = [NoAction EXCEPT !.type = "move_bookmark",
                                          !.bookmarkId = uiBookmarks[k].id,
                                          !.collectionId = uiBookmarks[k].collectionId]
        /\ store' = updateBookmark(store, uiBookmarks[k].id, "collectionId",
                                   collections[c], now)
        /\ uiBookmarks' = store'
        /\ status' = "Moved bookmark to collection."
        /\ Started("move", collections[c])
        /\ UNCHANGED <<result, collections, uiActiveCollectionId, deletion, undo,
                       legacy, outcome, urlVars, dedupeVars, metaVars>>

\* SettingsModal handleDeleteTag(tagName): the tag leaves every bookmark and
\* the list is saved as it is otherwise.
HandleDeleteTag ==
    \E tagName \in TagNames :
        /\ Quiet
        /\ store' = [k \in 1..Len(store) |->
                        [store[k] EXCEPT !.tags = SelectSeq(@, LAMBDA tag : tag # tagName)]]
        /\ uiBookmarks' = store'
        /\ Started("delete_tag", "")
        /\ UNCHANGED <<status, result, collections, uiActiveCollectionId, lastAction,
                       deletion, undo, legacy, outcome, urlVars, dedupeVars, metaVars>>

\* SettingsModal handleImport of a text with one link, its metadata arriving:
\* the bookmark goes to the active collection and the page reloads its list.
ImportLink ==
    \E l \in Links :
        /\ Quiet
        /\ store' = AddLinks(extractUrlsFromMarkdown(<<l>>), <<TRUE>>, 1,
                             uiActiveCollectionId,
                             [stored |-> store, existing |-> store, t |-> now]).stored
        /\ uiBookmarks' = store'
        /\ Started("import", uiActiveCollectionId)
        /\ UNCHANGED <<status, result, collections, uiActiveCollectionId, lastAction,
                       deletion, undo, legacy, outcome, urlVars, dedupeVars, metaVars>>

\* handleCreateCollection: storage.addCollection, then the collection becomes
\* the active one and the action to undo.
HandleCreateCollection ==
    /\ Quiet
    /\ \A c \in 1..Len(collections) : collections[c] # NewCollectionId
    /\ collections' = Append(getCollections(collections), NewCollectionId)
    /\ uiActiveCollectionId' = NewCollectionId
    /\ lastAction' = [NoAction EXCEPT !.type = "create_collection",
                                      !.collectionId = NewCollectionId]
    /\ Started("create_collection", NewCollectionId)
    /\ UNCHANGED <<store, uiBookmarks, status, result, deletion, undo, legacy,
                   outcome, urlVars, dedupeVars, metaVars>>

\* deleteCollection(id) of the page, for the active collection (the page
\* offers it when canDeleteCollection): storage.deleteCollection(id), then the
\* reloads and the action to undo.
DeleteCollection ==
    /\ Quiet
    /\ Len(collections) > 1
    /\ uiActiveCollectionId # "default"
    /\ collections' = CollectionsWithout(collections, uiActiveCollectionId)
    /\ store' = BookmarksOutside(store, uiActiveCollectionId)
    /\ uiBookmarks' = store'
    /\ uiActiveCollectionId' = "default"
    /\ lastAction' =
            [NoAction EXCEPT !.type = "delete_collection",
                             !.collectionId = uiActiveCollectionId,
                             !.bookmarks = SelectSeq(uiBookmarks,
                                LAMBDA b : b.collectionId = uiActiveCollectionId)]
    /\ Started("delete_collection", uiActiveCollectionId)
    /\ UNCHANGED <<status, result, deletion, undo, legacy, outcome, urlVars,
                   dedupeVars, metaVars>>

\* deleteBookmarks(ids): the bookmarks become the action to undo and their
\* removal from the store is put off by 150 ms.
DeleteBookmarks ==
    \E ids \in SUBSET IdsOf(uiBookmarks) :
        /\ Quiet
        /\ ids # {}
        /\ lastAction' = [NoAction EXCEPT !.type = "delete_bookmarks",
                                          !.bookmarks = SelectSeq(uiBookmarks,
                                                LAMBDA b : b.id \in ids)]
        /\ deletion' = Deferred(ids)
        /\ undo' = NoUndo
        /\ Started("delete_bookmarks", "")
        /\ UNCHANGED <<store, uiBookmarks, status, result, collections,
                       uiActiveCollectionId, legacy, outcome, urlVars, dedupeVars,
                       metaVars>>

\* The 150 ms are over: removeBookmarks starts.
TimerFires ==
    /\ deletion.pc = "timer"
    /\ deletion' = [deletion EXCEPT !.pc = "read"]
    /\ UNCHANGED <<store, uiBookmarks, status, lastOp, before, result, now, collections,
                   uiActiveCollectionId, lastAction, undo, target, legacy, outcome,
                   urlVars, dedupeVars, metaVars>>

\* storage.deleteBookmark(s): the store answers getBookmarks
DeleteRead ==
    /\ deletion.pc = "read"
    /\ deletion' = [deletion EXCEPT !.pc = "write",
                        !.list = SelectSeq(store, LAMBDA b : b.id \notin deletion.ids)]
    /\ UNCHANGED <<store, uiBookmarks, status, lastOp, before, result, now, collections,
                   uiActiveCollectionId, lastAction, undo, target, legacy, outcome,
                   urlVars, dedupeVars, metaVars>>

\* storage.deleteBookmark(s): the store takes the filtered list
DeleteWrite ==
    /\ deletion.pc = "write"
    /\ store' = deletion.list
    /\ deletion' = [deletion EXCEPT !.pc = "reload"]
    /\ UNCHANGED <<uiBookmarks, status, lastOp, before, result, now, collections,
                   uiActiveCollectionId, lastAction, undo, target, legacy, outcome,
                   urlVars, dedupeVars, metaVars>>

\* setBookmarks(await storage.getBookmarks()); deleteTimeoutRef.current = null
DeleteReload ==
    /\ deletion.pc = "reload"
    /\ uiBookmarks' = store
    /\ deletion' = NoDeletion
    /\ UNCHANGED <<store, status, lastOp, before, result, now, collections,
                   uiActiveCollectionId, lastAction, undo, target, legacy, outcome,
                   urlVars, dedupeVars, metaVars>>

\* The store after the undo of the action: the cases of the switch that make
\* one storage call.
UndoneStore(action, t) ==
    CASE action.type = "move_bookmark" ->
            updateBookmark(store, action.bookmarkId, "collectionId", action.collectionId, t)
      [] action.type = "update_tags" ->
            updateBookmark(store, action.bookmarkId, "tags", action.tags, t)
      [] action.type = "create_collection" ->
            BookmarksOutside(store, action.collectionId)
      [] action.type = "delete_collection" ->
            store \o SelectSeq(action.bookmarks, LAMBDA b : b.id \notin IdsOf(store))

\* The collections after the undo of the action.
UndoneCollections(action) ==
    CASE action.type = "create_collection" ->
            CollectionsWithout(collections, action.collectionId)
      [] action.type = "delete_collection" ->
            IF \E c \in 1..Len(getCollections(collections)) :
                    getCollections(collections)[c] = action.collectionId
            THEN collections
            ELSE Append(getCollections(collections), action.collectionId)
      [] OTHER -> collections

\* nextActiveId, and the active collection when there is none
UndoneActiveId(action) ==
    CASE action.type = "create_collection" /\ uiActiveCollectionId = action.collectionId ->
            "default"
      [] action.type = "delete_collection" -> action.collectionId
      [] OTHER -> uiActiveCollectionId

\* undoLastAction for a move, a tag edit, a created or a deleted collection
UndoLastAction ==
    /\ Quiet
    /\ lastAction.type \in {"move_bookmark", "update_tags", "create_collection",
                            "delete_collection"}
    /\ store' = UndoneStore(lastAction, now)
    /\ collections' = UndoneCollections(lastAction)
    /\ uiActiveCollectionId' = UndoneActiveId(lastAction)
    /\ uiBookmarks' = store'
    /\ status' = "Last action undone."
    /\ lastAction' = NoAction
    /\ Started("undo_" \o lastAction.type, lastAction.collectionId)
    /\ UNCHANGED <<result, deletion, undo, legacy, outcome, urlVars, dedupeVars, metaVars>>

\* undoLastAction for a deletion: the timer is cleared and getBookmarks is
\* requested.
UndoDeleteBookmarks ==
    /\ undo.pc = "idle"
    /\ lastAction.type = "delete_bookmarks"
    /\ deletion' = ClearTimeout(deletion)
    /\ undo' = [pc |-> "read", list |-> <<>>, bookmarks |-> lastAction.bookmarks]
    /\ Started("undo_delete_bookmarks", "")
    /\ UNCHANGED <<store, uiBookmarks, status, result, collections,
                   uiActiveCollectionId, lastAction, legacy, outcome, urlVars,
                   dedupeVars, metaVars>>

\* The store answers the undo's getBookmarks: restored is the deleted
\* bookmarks the answer lacks, then the answer.
UndoRead ==
    /\ undo.pc = "read"
    /\ undo' = [undo EXCEPT !.pc = "write",
                    !.list = SelectSeq(undo.bookmarks, LAMBDA b : b.id \notin IdsOf(store))
                                \o store]
    /\ UNCHANGED <<store, uiBookmarks, status, lastOp, before, result, now, collections,
                   uiActiveCollectionId, lastAction, deletion, target, legacy, outcome,
                   urlVars, dedupeVars, metaVars>>

\* storage.saveBookmarks(restored)
UndoWrite ==
    /\ undo.pc = "write"
    /\ store' = undo.list
    /\ undo' = [undo EXCEPT !.pc = "reload"]
    /\ UNCHANGED <<uiBookmarks, status, lastOp, before, result, now, collections,
                   uiActiveCollectionId, lastAction, deletion, target, legacy, outcome,
                   urlVars, dedupeVars, metaVars>>

\* The reloads that end undoLastAction.
UndoReload ==
    /\ undo.pc = "reload"
    /\ uiBookmarks' = store
    /\ status' = "Last action undone."
    /\ lastAction' = NoAction
    /\ undo' = [undo EXCEPT !.pc = "idle", !.list = <<>>]
    /\ UNCHANGED <<store, lastOp, before, result, now, collections,
                   uiActiveCollectionId, deletion, target, legacy, outcome, urlVars,
                   dedupeVars, metaVars>>

NextPage ==
    \/ HandleSaveTags
    \/ HandleRenameTitle
    \/ HandleDropBookmarkOnCollection
    \/ HandleDeleteTag
    \/ ImportLink
    \/ HandleCreateCollection
    \/ DeleteCollection
    \/ DeleteBookmarks
    \/ TimerFires
    \/ DeleteRead
    \/ DeleteWrite
    \/ DeleteReload
    \/ UndoLastAction
    \/ UndoDeleteBookmarks
    \/ UndoRead
    \/ UndoWrite
    \/ UndoReload

SpecPage == InitPage /\ [][NextPage]_vars

(***************************************************************************)
(* SpecRequests: the storage calls on a store whose requests may fail.     *)
(* fetchJson throws when a request fails: getBookmarks catches that and    *)
(* returns [], saveBookmarks and saveCollections let it through.           *)
(***************************************************************************)

LegacyKeys == {"bookmarks", "collections"}

\* What localStorage may hold under the legacy bookmarks key, parsed.
LegacyBookmarks ==
    {<<RecordOf([url |-> "a.co/p", collectionId |-> "work", stamps |-> <<1, 1>>], 1)>>,
     <<RecordOf([url |-> "a.co/p", collectionId |-> "gone", stamps |-> <<1, 2>>], 1),
       RecordOf([url |-> "www.a.co/p/?ref=1", collectionId |-> "default",
                 stamps |-> <<Undefined, Undefined>>], 2)>>}

\* What localStorage may hold under the legacy collections key, parsed.
LegacyCollections == {<<>>, <<"default", "work">>}

\* localStorage: the legacy keys that are set, each with whether its text
\* parses as JSON and the list it then gives.
LegacyStates ==
    {[k \in keys |-> [parses |-> ok[k],
                      items |-> IF k = "bookmarks" THEN b ELSE c]] :
        keys \in SUBSET LegacyKeys, ok \in [LegacyKeys -> BOOLEAN],
        b \in LegacyBookmarks, c \in LegacyCollections}

\* getBookmarks: the stored list, [] when the request fails
getBookmarks(stored, ok) == IF ok THEN stored ELSE <<>>

\* saveBookmarks(list): the store takes the list unless the request fails
saveBookmarks(stored, list, ok) == IF ok THEN list ELSE stored

\* How a call ended that saved last with the request's answer ok.
Settled(ok) == IF ok THEN "resolved" ELSE "rejected"

\* JSON.parse of the item of a key: [] when the key is not set or its text
\* does not parse
ParsedItem(items, key) ==
    IF key \in DOMAIN items /\ items[key].parses THEN items[key].items ELSE <<>>

\* The collections migrateLocalStorage saves.
MigratedCollections(parsedCollections) ==
    IF Len(parsedCollections) > 0 THEN parsedCollections ELSE <<"default">>

\* The bookmarks migrateLocalStorage saves.
MigratedBookmarks(parsedBookmarks, ids, t) ==
    dedupeBookmarks(
        [k \in 1..Len(parsedBookmarks) |->
            [parsedBookmarks[k] EXCEPT
                !.url = stripRefParam(@),
                !.collectionId = IF \E c \in 1..Len(ids) : ids[c] = @ THEN @ ELSE "default",
                !.createdAt = OrElse(@, t),
                !.updatedAt = OrElse(@, t)]], t)

\* A migration that removes the legacy keys before it saves.
LegacyRemovedFirst(items, saved) == NoLegacy

\* localStorage.removeItem of both keys, reached when both saves succeeded
LegacyAfter(items, saved) == IF saved THEN NoLegacy ELSE items

InitRequests ==
    /\ store \in InitialStores \cup {<<>>}
    /\ uiBookmarks = <<>>
    /\ collections = <<"default", "work">>
    /\ uiActiveCollectionId = "default"
    /\ lastAction = NoAction
    /\ deletion = NoDeletion
    /\ undo = NoUndo
    /\ target = ""
    /\ legacy \in LegacyStates
    /\ outcome = NoOutcome
    /\ status = ""
    /\ lastOp = ""
    /\ before = <<>>
    /\ result = [removed |-> 0, normalizedRef |-> 0]
    /\ now = 3
    /\ UrlIdle
    /\ DedupeIdle
    /\ MetaIdle

\* storage.migrateLocalStorage(), the two saves answered by collectionsOk and
\* bookmarksOk (the second is not sent when the first fails)
MigrateLocalStorage ==
    \E collectionsOk \in BOOLEAN, bookmarksOk \in BOOLEAN :
        /\ Started("migrateLocalStorage", "")
        /\ IF DOMAIN legacy = {}
           THEN /\ outcome' = [NoOutcome EXCEPT !.result = "not migrated"]
                /\ UNCHANGED <<store, collections, legacy>>
           ELSE /\ collections' =
                        IF collectionsOk
                        THEN MigratedCollections(ParsedItem(legacy, "collections"))
                        ELSE collections
                /\ store' =
                        saveBookmarks(store,
                            MigratedBookmarks(ParsedItem(legacy, "bookmarks"),
                                MigratedCollections(ParsedItem(legacy, "collections")),
                                now),
                            collectionsOk /\ bookmarksOk)
                /\ legacy' = LegacyAfter(legacy, collectionsOk /\ bookmarksOk)
                /\ outcome' = [result |-> IF collectionsOk /\ bookmarksOk
                                          THEN "migrated" ELSE "rejected",
                               ids |-> {},
                               saves |-> <<collectionsOk, bookmarksOk>>,
                               legacy |-> legacy]
        /\ UNCHANGED <<uiBookmarks, status, result, uiActiveCollectionId, lastAction,
                       deletion, undo, urlVars, dedupeVars, metaVars>>

\* A storage call on the bookmarks: the read answered by readOk, the write
\* by writeOk.
BookmarksCall(fn, ids, list, writeOk) ==
    /\ Started(fn, "")
    /\ store' = saveBookmarks(store, list, writeOk)
    /\ outcome' = [NoOutcome EXCEPT !.result = Settled(writeOk), !.ids = ids]
    /\ UNCHANGED <<uiBookmarks, status, result, collections, uiActiveCollectionId,
                   lastAction, deletion, undo, legacy, urlVars, dedupeVars, metaVars>>

\* storage.addBookmark(bookmark)
StorageAddBookmark ==
    \E readOk \in BOOLEAN, writeOk \in BOOLEAN, c \in CollectionIds :
        BookmarksCall("addBookmark", {now},
            StoreAdd(getBookmarks(store, readOk), NewBookmark("https://c.co/", "t", c, now)),
            writeOk)

\* storage.deleteBookmark(id)
StorageDeleteBookmark ==
    \E readOk \in BOOLEAN, writeOk \in BOOLEAN, id \in IdsOf(store) :
        BookmarksCall("deleteBookmark", {id},
            SelectSeq(getBookmarks(store, readOk), LAMBDA b : b.id # id), writeOk)

\* storage.deleteBookmarks(ids)
StorageDeleteBookmarks ==
    \E readOk \in BOOLEAN, writeOk \in BOOLEAN, ids \in SUBSET IdsOf(store) :
        BookmarksCall("deleteBookmarks", ids,
            SelectSeq(getBookmarks(store, readOk), LAMBDA b : b.id \notin ids), writeOk)

NextRequests ==
    \/ MigrateLocalStorage
    \/ StorageAddBookmark
    \/ StorageDeleteBookmark
    \/ StorageDeleteBookmarks

SpecRequests == InitRequests /\ [][NextRequests]_vars

(***************************************************************************)
(* SpecMeta: the metadata extractor applied to bounded documents. A        *)
(* document is a sequence of tags; each is the text it contributes to the  *)
(* HTML and the value it carries as written ("" when it carries none).     *)
(***************************************************************************)

\* The longest text handed to decodeHtmlEntities, in pieces.
MaxPieces == 3

NoTag == [tag |-> "", value |-> ""]

\* <meta ATTR="NAME" content="CONTENT">
MetaTag(attr, name, content) ==
    [tag |-> "<meta " \o attr \o "=\"" \o name \o "\" content=\"" \o content \o "\">",
     value |-> content]

\* <link rel="REL" href="HREF">
LinkTag(rel, href) ==
    [tag |-> "<link rel=\"" \o rel \o "\" href=\"" \o href \o "\">", value |-> href]

\* The urls a document is fetched from.
PageUrls == {"https://www.a.co/p", "http://b.co:8080", "https://sub.www.a.co", "not a url"}

OgTitles ==
    {NoTag,
     MetaTag("property", "og:title", "Hello &amp; World"),
     MetaTag("property", "og:title", "'Hi' there"),
     MetaTag("property", "og:title", ""),
     [tag |-> "<META PROPERTY='og:title' CONTENT='Og'>", value |-> "Og"]}

TwitterTitles ==
    {NoTag, MetaTag("name", "twitter:title", "Tw"), MetaTag("name", "twitter:title", "")}

TitleElements ==
    {NoTag,
     [tag |-> "<title>Doc</title>", value |-> "Doc"],
     [tag |-> "<title></title>", value |-> ""],
     [tag |-> "<TITLE lang=\"en\">T &lt;1&gt;</TITLE>", value |-> "T &lt;1&gt;"]}

\* Documents for extractTitle: the tags stand in the document in the reverse
\* of the order in which the function tries them.
TitlePages ==
    {[kind |-> "title", tags |-> <<t, tw, og>>, url |-> u] :
        t \in TitleElements, tw \in TwitterTitles, og \in OgTitles, u \in PageUrls}

OgDescriptions ==
    {NoTag,
     MetaTag("property", "og:description", "D &quot;1&quot;"),
     MetaTag("property", "og:description", "'Hi' there"),
     MetaTag("property", "og:description", "")}

TwitterDescriptions ==
    {NoTag,
     MetaTag("name", "twitter:description", "Tw"),
     MetaTag("name", "twitter:description", "")}

MetaDescriptions ==
    {NoTag,
     MetaTag("name", "description", "Plain"),
     [tag |-> "<meta name='description' content='Single'>", value |-> "Single"],
     MetaTag("name", "description", "")}

DescriptionPages ==
    {[kind |-> "description", tags |-> <<d, tw, og>>, url |-> "https://www.a.co/p"] :
        d \in MetaDescriptions, tw \in TwitterDescriptions, og \in OgDescriptions}

AppleIcons ==
    {NoTag, LinkTag("apple-touch-icon", "/apple.png"), LinkTag("apple-touch-icon", "")}

PngIcons ==
    {NoTag,
     [tag |-> "<link rel=\"icon\" type=\"image/png\" href=\"icon.png\">",
      value |-> "icon.png"]}

ShortcutIcons == {NoTag, LinkTag("shortcut icon", "//c.co/s.ico")}

AnyIcons ==
    {NoTag,
     LinkTag("icon", "https://c.co/f.ico"),
     [tag |-> "<link rel=\"icon\" type=\"image/svg+xml\" href=\"/f.svg\">",
      value |-> "/f.svg"]}

IconPages ==
    {[kind |-> "icon", tags |-> <<a, s, p, t>>, url |-> u] :
        a \in AnyIcons, s \in ShortcutIcons, p \in PngIcons, t \in AppleIcons,
        u \in PageUrls}

OgImages ==
    {NoTag,
     MetaTag("property", "og:image", "https://c.co/i.png"),
     MetaTag("property", "og:image", "/i.png"),
     MetaTag("property", "og:image", "")}

TwitterImages == {NoTag, MetaTag("name", "twitter:image", "t.png")}

ImagePages ==
    {[kind |-> "image", tags |-> <<tw, og>>, url |-> u] :
        tw \in TwitterImages, og \in OgImages, u \in PageUrls}

\* The pieces of a text: the six entities with the character each stands
\* for, and pieces that stand for themselves.
Pieces ==
    {[tag |-> "&amp;", value |-> "&"],
     [tag |-> "&lt;", value |-> "<"],
     [tag |-> "&gt;", value |-> ">"],
     [tag |-> "&quot;", value |-> "\""],
     [tag |-> "&#39;", value |-> "'"],
     [tag |-> "&apos;", value |-> "'"]}
    \cup {[tag |-> c, value |-> c] : c \in {"&nbsp;", "&", ";", "a", " "}}

TextPages ==
    {[kind |-> "text", tags |-> t, url |-> ""] :
        t \in UNION {[1..n -> Pieces] : n \in 0..MaxPieces}}

\* The href values a link or meta tag of a document may hold.
Hrefs ==
    {"https://c.co/i.png", "http://c.co/i.png", "data:image/png;base64,AA",
     "//c.co/i.png", "/i.png", "i.png", "httpx.png"}

\* An href found in the document of a URL that parses (resolveUrl is called
\* with the origin of the parsed URL only).
HrefPages ==
    {[kind |-> "href", tags |-> <<[tag |-> h, value |-> h]>>, url |-> u] :
        h \in Hrefs, u \in {v \in PageUrls : ParseURL(v).ok}}

\* A string handed to the URL functions: a page URL or a string that is no
\* URL.
InputPages ==
    {[kind |-> "input", tags |-> <<>>, url |-> u] : u \in PageUrls \cup Malformed}

\* The HTML text of a document.
Html(p) == JoinWith([k \in 1..Len(p.tags) |-> p.tags[k].tag], "")

InitMeta ==
    /\ page \in TitlePages \cup DescriptionPages \cup IconPages \cup ImagePages
                \cup TextPages \cup HrefPages \cup InputPages
    /\ extracted = <<>>
    /\ now = 0
    /\ UrlIdle
    /\ DedupeIdle
    /\ StoreIdle
    /\ PageIdle

\* One call of a function of the extractor on the document.
Extract(kind, fn, value) ==
    /\ page.kind = kind
    /\ extracted = <<>>
    /\ extracted' = [fn |-> fn, value |-> value]
    /\ UNCHANGED <<page, now, urlVars, dedupeVars, storeVars, pageVars>>

ExtractTitle == Extract("title", "extractTitle", extractTitle(Html(page), page.url))

ExtractDescription ==
    Extract("description", "extractDescription", extractDescription(Html(page)))

ExtractIcon == Extract("icon", "extractIcon", extractIcon(Html(page), page.url))

ExtractImage == Extract("image", "extractImage", extractImage(Html(page), page.url))

DecodeEntities == Extract("text", "decodeHtmlEntities", decodeHtmlEntities(Html(page)))

ResolveUrl ==
    Extract("href", "resolveUrl", resolveUrl(Html(page), Origin(ParseURL(page.url))))

CanonicalizeInput ==
    Extract("input", "normalizeCompareUrl", CompareUrlOf(page.url))

StripRefInput == Extract("input", "stripRefParam", StripRefOf(page.url))

\* dedupeBookmarks on two records that hold the string as their url
DedupeInput ==
    Extract("input", "dedupeBookmarks",
            dedupeBookmarks(
                <<RecordOf([url |-> page.url, collectionId |-> "default",
                            stamps |-> <<1, 1>>], 1),
                  RecordOf([url |-> page.url, collectionId |-> "default",
                            stamps |-> <<1, 1>>], 2)>>, now))

NextMeta ==
    \/ CanonicalizeInput
    \/ StripRefInput
    \/ DedupeInput
    \/ ExtractTitle
    \/ ResolveUrl
    \/ ExtractDescription
    \/ ExtractIcon
    \/ ExtractImage
    \/ DecodeEntities

SpecMeta == InitMeta /\ [][NextMeta]_vars

(***************************************************************************)
(* Properties of canonicalize (SpecUrl)                                    *)
(***************************************************************************)

\* The string is one canonicalize parses (after its https:// fallback).
ValidUrl(url) == Trim(url) # "" /\ ParseURL(normalizeUrl(Trim(url))).ok

\* C2: canonicalize is idempotent: for every input that parses as a URL,
\* canonicalizing the canonical form again returns it unchanged.
CanonicalizeIdempotent ==
    (op = "recanonicalize" /\ ValidUrl(Render(parts))) => res[1] = arg[1]

\* C3: two valid URLs that differ only by a leading "www.", one trailing
\* slash on a non-root path, the fragment, a ref parameter or utm_* parameters
\* have the same canonical form.
NearDuplicatesSameKey ==
    (/\ op \in {"www", "slash", "fragment", "ref", "utm"}
     /\ ValidUrl(arg[1])
     /\ ValidUrl(arg[2])) => res[1] = res[2]

\* C4: two URLs that differ only in scheme (http against https), alone or
\* together with the other near-duplicate differences, have the same canonical
\* form; so have the two strings of the documented example.
SchemeVariantsSameKey ==
    op \in {"scheme", "example"} => res[1] = res[2]

\* The URL object the functions parse their argument into.
ParsedInput(url) == ParseURL(normalizeUrl(Trim(url)))

\* C11: stripRefParam removes every query parameter named ref and nothing
\* else: scheme, host (a leading "www." included), port, path and fragment are
\* those of the input, and the other parameters, utm_* ones included, stay in
\* their order; the documented example returns "https://example.com/a?x=2".
StripRefRemovesOnlyRef ==
    /\ (op = "stripRef" /\ ValidUrl(arg[1])) =>
          /\ ParseURL(res[1]).ok
          /\ ParseURL(res[1]).scheme = ParsedInput(arg[1]).scheme
          /\ ParseURL(res[1]).host = ParsedInput(arg[1]).host
          /\ ParseURL(res[1]).port = ParsedInput(arg[1]).port
          /\ ParseURL(res[1]).path = ParsedInput(arg[1]).path
          /\ ParseURL(res[1]).fragment = ParsedInput(arg[1]).fragment
          /\ ParseURL(res[1]).searchParams =
                SelectSeq(ParsedInput(arg[1]).searchParams, LAMBDA p : p[1] # "ref")
    /\ op = "stripRefExample" => res[1] = "https://example.com/a?x=2"

\* C11 witness: an input on a www. host with two ref parameters, another
\* parameter between them and a fragment, all but the ref parameters kept.
StripRefRemovesOnlyRefWitness ==
    /\ op = "stripRef"
    /\ arg[1] = "https://a.co/p?ref=1&x=3&ref=2#f"
    /\ res[1] = "https://a.co/p?x=3#f"

\* The name is one canonicalize removes: ref as written, or a name that starts
\* with utm_ in any case.
Tracking(name) == name = "ref" \/ StartsWith(ToLower(name), "utm_")

\* C12: canonicalize removes exactly the parameters named ref (as written: Ref
\* stays) or whose name starts with utm_ in any case, all of them in one call,
\* and leaves the other parameters in their order.
CanonicalizeRemovesTracking ==
    (op = "canonicalize" /\ ValidUrl(arg[1])) =>
        ParseURL(res[1]).searchParams =
            SelectSeq(ParsedInput(arg[1]).searchParams, LAMBDA p : ~Tracking(p[1]))

\* C12 witness: an upper-case utm parameter was removed and Ref was kept.
CanonicalizeRemovesTrackingWitness ==
    /\ op = "canonicalize"
    /\ parts.params = <<"UTM_m=5", "Ref=4">>
    /\ ParseURL(res[1]).searchParams = <<<<"Ref", "4">>>>

\* C13: canonicalize and stripRefParam treat an input with no scheme as the
\* same string after "https://", also when the host begins with "http".
BareDomainAsHttps ==
    op = "bare" => res[1] = res[2] /\ res[3] = res[4]

\* C14: canonicalize returns a string it cannot parse with the surrounding
\* whitespace trimmed, and an empty or all-whitespace string unchanged.
MalformedReturnedTrimmed ==
    op = "malformed" => res[1] = (IF Trim(arg[1]) = "" THEN arg[1] ELSE Trim(arg[1]))

(***************************************************************************)
(* Properties of dedupeBookmarks (SpecDedupe)                              *)
(***************************************************************************)

\* The canonical keys of the input records, in input order.
InputKeys == [i \in 1..Len(input) |-> CompareKey(input[i].url)]

RECURSIVE FirstOccurrences(_, _, _)
\* The distinct elements of seq from index i on that are not in acc, appended
\* to acc in the order in which each first occurs.
FirstOccurrences(seq, i, acc) ==
    IF i > Len(seq) THEN acc
    ELSE FirstOccurrences(seq, i + 1,
            IF \E k \in 1..Len(acc) : acc[k] = seq[i] THEN acc ELSE Append(acc, seq[i]))

\* C1: the output of dedupeBookmarks has no more records than its input, and
\* no two output records have the same canonical key, the key being computed
\* from the output record's own url.
DedupeOutputKeysDistinct ==
    phase = "done" =>
        /\ Len(output) <= Len(input)
        /\ \A i, j \in 1..Len(output) :
              i # j => CompareKey(output[i].url) # CompareKey(output[j].url)

\* C5: if any input record of a key is outside the "default" collection, the
\* output record of that key is outside it too, whatever the timestamps and
\* the input order.
NonDefaultBeatsDefault ==
    phase = "done" =>
        \A i \in 1..Len(input) :
            input[i].collectionId # "default" =>
                /\ \E k \in 1..Len(output) : output[k].url = InputKeys[i]
                /\ \A k \in 1..Len(output) :
                      output[k].url = InputKeys[i] => output[k].collectionId # "default"

\* C5 witness: a record outside "default" was kept against a later, newer
\* record of the same key in "default".
NonDefaultBeatsDefaultWitness ==
    /\ phase = "done"
    /\ Len(input) = 2
    /\ InputKeys[1] = InputKeys[2]
    /\ input[1].collectionId = "work" /\ input[1].updatedAt = 1
    /\ input[2].collectionId = "default" /\ input[2].updatedAt = 2
    /\ Len(output) = 1 /\ output[1].id = 1

\* C6: of two records of the same key in the same default-ness state, the
\* one with the strictly greater updatedAt wins, a missing updatedAt counting
\* as 0 for the first (existing) record as for the second (incoming) one, and
\* the first is kept on equal values.
GreaterUpdatedAtWins ==
    (/\ phase = "done"
     /\ Len(input) = 2
     /\ InputKeys[1] = InputKeys[2]
     /\ (input[1].collectionId = "default") = (input[2].collectionId = "default"))
    => /\ Len(output) = 1
       /\ output[1].id =
            IF OrElse(input[2].updatedAt, 0) > OrElse(input[1].updatedAt, 0) THEN 2 ELSE 1

\* C7: the output lists the chosen records in the order in which each distinct
\* key first occurs in the input.
OutputInFirstOccurrenceOrder ==
    phase = "done" =>
        [k \in 1..Len(output) |-> output[k].url] = FirstOccurrences(InputKeys, 1, <<>>)

\* C7 witness: the winner of the first key is a later record that replaced the
\* first one, and another key occurs in between.
OutputInFirstOccurrenceOrderWitness ==
    /\ phase = "done"
    /\ Len(input) = 3
    /\ InputKeys[1] = InputKeys[3]
    /\ InputKeys[1] # InputKeys[2]
    /\ Len(output) = 2
    /\ output[1].id = 3
    /\ output[2].id = 2

\* C8: every output record is an input record (the one with its id) with only
\* these changes: url is the record's canonical key, and createdAt and
\* updatedAt hold the current time where they were absent.
OutputRecordFrame ==
    phase = "done" =>
        \A k \in 1..Len(output) :
            \E i \in 1..Len(input) :
                /\ input[i].id = output[k].id
                /\ output[k] =
                     [id |-> input[i].id,
                      url |-> InputKeys[i],
                      title |-> input[i].title,
                      tags |-> input[i].tags,
                      collectionId |-> input[i].collectionId,
                      createdAt |-> IF input[i].createdAt = Undefined THEN now
                                    ELSE input[i].createdAt,
                      updatedAt |-> IF input[i].updatedAt = Undefined THEN now
                                    ELSE input[i].updatedAt]

\* C8 witness: an output record whose url was rewritten, whose createdAt was
\* backfilled and whose updatedAt was kept.
OutputRecordFrameWitness ==
    /\ phase = "done"
    /\ \E k \in 1..Len(output) :
          /\ input[output[k].id].url # output[k].url
          /\ input[output[k].id].createdAt = Undefined
          /\ output[k].createdAt = now
          /\ input[output[k].id].updatedAt = 2
          /\ output[k].updatedAt = 2

(***************************************************************************)
(* Properties of the store (Spec)                                          *)
(***************************************************************************)

\* C9: dedupeBookmarksByUrl reports as removed the number of stored records
\* minus the number of records after the deduplication, and never a negative
\* number.
RemovedIsSizeDelta ==
    lastOp = "dedupe" =>
        /\ result.removed = Len(before) - Len(store)
        /\ result.removed >= 0

\* C9 witness: a deduplication that removed a record of the store.
RemovedIsSizeDeltaWitness ==
    /\ lastOp = "dedupe"
    /\ Len(before) = 2
    /\ Len(store) = 1
    /\ result.removed = 1

\* C10: the store holds at most one bookmark per canonical url, the canonical
\* url being normalizeCompareUrl of the stored url: an add, an import or a
\* bulk add of a url whose canonical form is that of a stored bookmark stores
\* nothing.
OneBookmarkPerCanonicalUrl ==
    \A i, j \in 1..Len(store) :
        normalizeCompareUrl(store[i].url) = normalizeCompareUrl(store[j].url) => i = j

\* The url has a query parameter named ref.
HasRefParam(url) == \E k \in 1..Len(ParsedInput(url).searchParams) :
                        ParsedInput(url).searchParams[k][1] = "ref"

\* C15: the normalizedRef dedupeBookmarksByUrl returns is the number of stored
\* records whose url has a ref parameter to remove, counted on the store as it
\* was before the deduplication; a record whose url has none is not counted.
NormalizedRefCountsRefUrls ==
    lastOp = "dedupe" =>
        result.normalizedRef = Cardinality({k \in 1..Len(before) : HasRefParam(before[k].url)})

(***************************************************************************)
(* Properties of the metadata extractor (SpecMeta)                         *)
(***************************************************************************)

\* The function fn was called on the document.
Called(fn) == extracted # <<>> /\ extracted.fn = fn

\* The values the tags of the document carry, in the order in which the
\* function tries them (the reverse of the document's).
Carried == [k \in 1..Len(page.tags) |-> page.tags[Len(page.tags) + 1 - k].value]

\* The first non-empty value of a sequence; "" when there is none.
FirstValue(values) ==
    IF \A k \in 1..Len(values) : values[k] = "" THEN ""
    ELSE values[CHOOSE k \in 1..Len(values) :
                    values[k] # "" /\ \A j \in 1..(k - 1) : values[j] = ""]

\* C16: extractTitle returns the first available of: the non-empty og:title
\* content, the non-empty twitter:title content, the non-empty <title> text
\* (each entity-decoded), the hostname of url without a leading "www.", and
\* "Untitled" when url does not parse.
TitleIsFirstAvailable ==
    Called("extractTitle") =>
        extracted.value =
            IF FirstValue(Carried) # "" THEN decodeHtmlEntities(FirstValue(Carried))
            ELSE IF ParseURL(page.url).ok THEN StripLeadingWww(ParseURL(page.url).host)
            ELSE "Untitled"

\* C17: decoding replaces every occurrence of the six entities by its
\* character, wherever it stands in the text, and leaves the rest as it is.
EveryEntityDecoded ==
    Called("decodeHtmlEntities") =>
        extracted.value = JoinWith([k \in 1..Len(page.tags) |-> page.tags[k].value], "")

\* C18: extractDescription returns the first non-empty of the og:description,
\* twitter:description and name="description" contents, entity-decoded, and
\* the empty string when there is none.
DescriptionIsFirstAvailable ==
    Called("extractDescription") =>
        extracted.value = decodeHtmlEntities(FirstValue(Carried))

\* C19: extractIcon returns the first of the apple-touch-icon, png icon,
\* shortcut icon and icon links, resolved against the origin of url, and
\* origin/favicon.ico when there is none; it returns absent exactly when url
\* does not parse.
IconIsFirstMatch ==
    Called("extractIcon") =>
        /\ (extracted.value = Absent) <=> ~ParseURL(page.url).ok
        /\ ParseURL(page.url).ok =>
              extracted.value =
                 IF FirstValue(Carried) # ""
                 THEN resolveUrl(FirstValue(Carried), Origin(ParseURL(page.url)))
                 ELSE Origin(ParseURL(page.url)) \o "/favicon.ico"

\* C19 witness: a document with a shortcut icon and an icon link after it, and
\* neither of the first two: the shortcut icon is returned.
IconIsFirstMatchWitness ==
    /\ Called("extractIcon")
    /\ page.url = "https://www.a.co/p"
    /\ Carried = <<"", "", "//c.co/s.ico", "https://c.co/f.ico">>
    /\ extracted.value = "https://c.co/s.ico"

\* C20: extractImage returns the og:image resolved against the origin of url,
\* else the twitter:image resolved, else absent: it has no fallback. (It is
\* absent too when url does not parse.)
ImageIsOgThenTwitter ==
    Called("extractImage") =>
        extracted.value =
            IF ~ParseURL(page.url).ok \/ FirstValue(Carried) = "" THEN Absent
            ELSE resolveUrl(FirstValue(Carried), Origin(ParseURL(page.url)))

\* C20 witness: a document with a twitter:image and an og:image of empty
\* content: the twitter:image is returned, resolved.
ImageIsOgThenTwitterWitness ==
    /\ Called("extractImage")
    /\ page.url = "http://b.co:8080"
    /\ Carried = <<"", "t.png">>
    /\ page.tags[2] # NoTag
    /\ extracted.value = "http://b.co:8080/t.png"

\* C22: the hostname fallback of extractTitle removes "www." only when it is
\* the leading label of the hostname; a hostname that holds "www." elsewhere,
\* or not at all, is returned unchanged.
HostnameFallbackStripsLeadingWww ==
    (Called("extractTitle") /\ FirstValue(Carried) = "" /\ ParseURL(page.url).ok) =>
        extracted.value = StripLeadingWww(ParseURL(page.url).host)

\* C23: resolveUrl returns href unchanged when href has a scheme, "https:" +
\* href when it is protocol-relative, origin + href when it is an absolute
\* path, and origin + "/" + href for every other href.
ResolveUrlByShape ==
    Called("resolveUrl") =>
        extracted.value =
            IF SchemeEnd(Html(page)) # 0 THEN Html(page)
            ELSE IF StartsWith(Html(page), "//") THEN "https:" \o Html(page)
            ELSE IF StartsWith(Html(page), "/")
                 THEN Origin(ParseURL(page.url)) \o Html(page)
            ELSE Origin(ParseURL(page.url)) \o "/" \o Html(page)
\* A string that does not parse as a URL, with "https://" before it either.
CannotParse(url) ==
    ~ParseURL(Trim(url)).ok /\ ~ParseURL("https://" \o Trim(url)).ok

\* C21: no core operation raises on a string input: each returns a value or
\* absent, and an unparsable url or an HTML text without the expected pattern
\* yields the fallback (the original string, the empty string, "Untitled",
\* or absent) instead of an exception.
NeverRaises ==
    /\ Called("normalizeCompareUrl") =>
            /\ extracted.value # Raised
            /\ CannotParse(page.url) => extracted.value = page.url
    /\ Called("stripRefParam") =>
            /\ extracted.value # Raised
            /\ CannotParse(page.url) => extracted.value = page.url
    /\ Called("dedupeBookmarks") =>
            /\ Len(extracted.value) = 1
            /\ extracted.value[1].id = 1
    /\ Called("extractTitle") =>
            /\ extracted.value \notin {Raised, Absent}
            /\ (FirstValue(Carried) = "" /\ ~ParseURL(page.url).ok) =>
                    extracted.value = "Untitled"
    /\ Called("extractDescription") =>
            /\ extracted.value \notin {Raised, Absent}
            /\ FirstValue(Carried) = "" => extracted.value = ""
    /\ Called("extractIcon") =>
            /\ extracted.value # Raised
            /\ ~ParseURL(page.url).ok => extracted.value = Absent
    /\ Called("extractImage") =>
            /\ extracted.value # Raised
            /\ (FirstValue(Carried) = "" \/ ~ParseURL(page.url).ok) =>
                    extracted.value = Absent

\* extractTitle fell back to "Untitled" on a document without a title at a
\* url that does not parse.
NeverRaisesWitness ==
    /\ Called("extractTitle")
    /\ FirstValue(Carried) = ""
    /\ ~ParseURL(page.url).ok
    /\ extracted.value = "Untitled"
\* C24: after dedupeBookmarksByUrl the persisted store is dedupeBookmarks of
\* the store as it was: every stored url is its own canonical key, also when
\* the run removed no record and stripped no ref parameter.
DedupeStoresCanonicalUrls ==
    lastOp = "dedupe" =>
        /\ store = dedupeBookmarks(before, now)
        /\ \A k \in 1..Len(store) : store[k].url = CompareKey(store[k].url)
(***************************************************************************)
(* Properties of the page's handlers (SpecPage)                            *)
(***************************************************************************)

\* C25: the updatedAt of a bookmark never decreases, and every step that
\* changes the tags, the title or the collectionId of a stored bookmark (a
\* tag edit, a rename, a move, the undo of one, the deletion of a tag in the
\* settings) sets its updatedAt to the current time.
UpdatedAtFollowsEdits ==
    [][\A i \in 1..Len(store), j \in 1..Len(store') :
            store[i].id = store'[j].id =>
                /\ store'[j].updatedAt >= store[i].updatedAt
                /\ (\/ store'[j].tags # store[i].tags
                    \/ store'[j].title # store[i].title
                    \/ store'[j].collectionId # store[i].collectionId) =>
                        store'[j].updatedAt = now]_vars

UndoRestoresDeleted ==
    (lastOp = "undo_delete_bookmarks" /\ undo.pc = "idle" /\ deletion.pc = "idle") =>
        \A k \in 1..Len(undo.bookmarks) :
            Cardinality({i \in 1..Len(store) : store[i].id = undo.bookmarks[k].id}) = 1

\* C29: the undo of create_collection removes the created collection and
\* leaves every stored bookmark in place, those imported into the collection
\* after its creation too.
UndoCreateKeepsBookmarks ==
    lastOp = "undo_create_collection" =>
        /\ \A c \in 1..Len(collections) : collections[c] # target
        /\ store = before
(***************************************************************************)
(* Properties of the storage calls (SpecRequests)                          *)
(***************************************************************************)

\* C27: storage.addBookmark, deleteBookmark and deleteBookmarks change only
\* the records they are called for: every other stored bookmark is stored
\* unchanged after the call, also when the read that precedes the write
\* fails.
StorageCallsKeepOtherRecords ==
    lastOp \in {"addBookmark", "deleteBookmark", "deleteBookmarks"} =>
        \A k \in 1..Len(before) :
            before[k].id \notin outcome.ids =>
                \E i \in 1..Len(store) : store[i] = before[k]

\* C30: migrateLocalStorage removes the legacy keys only after saveCollections
\* and saveBookmarks have both succeeded: when either fails, the legacy keys
\* are as they were and the call does not return migrated: true.
LegacyKeptUnlessSaved ==
    (lastOp = "migrateLocalStorage" /\ DOMAIN outcome.legacy # {}) =>
        IF outcome.saves = <<TRUE, TRUE>>
        THEN DOMAIN legacy = {} /\ outcome.result = "migrated"
        ELSE legacy = outcome.legacy /\ outcome.result # "migrated"

\* C30 witness: saveCollections succeeded, saveBookmarks failed, and both
\* legacy keys are still set.
LegacyKeptUnlessSavedWitness ==
    /\ lastOp = "migrateLocalStorage"
    /\ outcome.saves = <<TRUE, FALSE>>
    /\ DOMAIN legacy = LegacyKeys
    /\ outcome.result = "rejected"
====
